---- MODULE Spec2Model ----
(***************************************************************************)
(* Timing / style resolution engine of the groove extractor.               *)
(*                                                                         *)
(* The engine is a set of synchronous calls.  A behaviour of the model is  *)
(* one call: Init draws the callee and its arguments, the callee's action  *)
(* runs the whole call and stores what it returns.                         *)
(*                                                                         *)
(* Python floats are modelled as exact rationals <<n, d>> in lowest terms  *)
(* with d > 0, so that 152 / 2 = 76.0 and the comparisons against the      *)
(* thresholds are computed, not assumed.  The tempo tracker (librosa) is   *)
(* an external collaborator: the BPM it reports is an argument drawn by    *)
(* Init.  tempo_drift / is_vintage are copied through by every path and    *)
(* are not carried in the model.                                           *)
(***************************************************************************)
EXTENDS Integers, Sequences, FiniteSets, TLC

VARIABLES pc, op, args, result, extractor

vars == <<pc, op, args, result, extractor>>

(***************************************************************************)
(* Bounds of the model                                                     *)
(***************************************************************************)
MinBpm == 56
MaxBpm == 184
MaxBars == 4
MaxTimeMs == 250
MinGridBpm == 70
MaxGridBpm == 80
MaxTick == 3900
MaxOnsetMs == 600
MaxOnsets == 3
MaxNumBars == 3
MaxIntervals == 8
MaxDecaySteps == 45

(***************************************************************************)
(* Float arithmetic, exact                                                 *)
(***************************************************************************)
RECURSIVE GCD(_, _)
GCD(a, b) == IF b = 0 THEN a ELSE GCD(b, a % b)

Abs(x) == IF x < 0 THEN -x ELSE x

Rat(n, d) ==
    LET s == IF d < 0 THEN -1 ELSE 1
        g == GCD(Abs(n), Abs(d))
    IN  <<(s * n) \div g, (s * d) \div g>>

Num(x) == x[1]
Den(x) == x[2]
FromInt(i) == <<i, 1>>

RatAdd(x, y) == Rat(Num(x) * Den(y) + Num(y) * Den(x), Den(x) * Den(y))
RatSub(x, y) == Rat(Num(x) * Den(y) - Num(y) * Den(x), Den(x) * Den(y))
RatMul(x, y) == Rat(Num(x) * Num(y), Den(x) * Den(y))
RatDiv(x, y) == Rat(Num(x) * Den(y), Den(x) * Num(y))
RatLT(x, y) == Num(x) * Den(y) < Num(y) * Den(x)
RatLE(x, y) == Num(x) * Den(y) <= Num(y) * Den(x)
RatAbs(x) == <<Abs(Num(x)), Den(x)>>
RatMax(x, y) == IF RatLT(x, y) THEN y ELSE x
RatMin(x, y) == IF RatLT(y, x) THEN y ELSE x

\* int(x): truncation toward zero
RatTrunc(x) ==
    IF Num(x) >= 0 THEN Num(x) \div Den(x) ELSE -((-Num(x)) \div Den(x))

\* round(x): nearest integer, a tie goes to the even neighbour
RatRound(x) ==
    LET f == Num(x) \div Den(x)
        r == Num(x) - f * Den(x)
    IN  IF 2 * r < Den(x) THEN f
        ELSE IF 2 * r > Den(x) THEN f + 1
        ELSE IF f % 2 = 0 THEN f ELSE f + 1

\* x % m for an integer modulus m > 0
RatMod(x, m) == Rat(Num(x) % (m * Den(x)), Den(x))

(***************************************************************************)
(* models/jamaican_styles.py                                               *)
(***************************************************************************)
SKA == "ska"
ROCKSTEADY == "rocksteady"
EARLY_REGGAE == "early_reggae"
ONE_DROP == "one_drop"
ROCKERS == "rockers"
STEPPERS == "steppers"
DUB == "dub"
ROOTS_REGGAE == "roots_reggae"
UNKNOWN == "unknown"

JamaicanStyle ==
    {SKA, ROCKSTEADY, EARLY_REGGAE, ONE_DROP, ROCKERS, STEPPERS, DUB,
     ROOTS_REGGAE, UNKNOWN}

StyleBPMRange(style, lo, hi, typ) ==
    [style |-> style, min_bpm |-> FromInt(lo), max_bpm |-> FromInt(hi),
     typical_bpm |-> FromInt(typ)]

\* the dict, in insertion order
STYLE_BPM_RANGES ==
    << StyleBPMRange(SKA, 110, 180, 145),
       StyleBPMRange(ROCKSTEADY, 70, 95, 82),
       StyleBPMRange(EARLY_REGGAE, 72, 100, 85),
       StyleBPMRange(ONE_DROP, 65, 90, 76),
       StyleBPMRange(ROCKERS, 70, 95, 80),
       StyleBPMRange(STEPPERS, 70, 92, 78),
       StyleBPMRange(ROOTS_REGGAE, 65, 95, 78),
       StyleBPMRange(DUB, 60, 90, 75) >>

InRange(bpm, range_info) ==
    RatLE(range_info.min_bpm, bpm) /\ RatLE(bpm, range_info.max_bpm)

\* fault: the clamp to [floor, 1.0] is left out
RangeConfidence_unclamped(bpm, range_info, floor) ==
    LET distance == RatAbs(RatSub(bpm, range_info.typical_bpm))
        max_distance == RatDiv(RatSub(range_info.max_bpm, range_info.min_bpm),
                               FromInt(2))
    IN  IF RatLT(FromInt(0), max_distance)
        THEN RatSub(FromInt(1), RatDiv(distance, max_distance))
        ELSE FromInt(1)

\* 1.0 - distance / max_distance, clamped to [floor, 1.0]
RangeConfidence(bpm, range_info, floor) ==
    LET distance == RatAbs(RatSub(bpm, range_info.typical_bpm))
        max_distance == RatDiv(RatSub(range_info.max_bpm, range_info.min_bpm),
                               FromInt(2))
        confidence == IF RatLT(FromInt(0), max_distance)
                      THEN RatSub(FromInt(1), RatDiv(distance, max_distance))
                      ELSE FromInt(1)
    IN  RatMax(floor, RatMin(FromInt(1), confidence))

RECURSIVE SuggestLoop(_, _, _, _)
SuggestLoop(i, bpm, best_style, best_confidence) ==
    IF i > Len(STYLE_BPM_RANGES) THEN <<best_style, best_confidence>>
    ELSE LET range_info == STYLE_BPM_RANGES[i]
             confidence == RangeConfidence(bpm, range_info, Rat(1, 2))
         IN  IF InRange(bpm, range_info) /\ RatLT(best_confidence, confidence)
             THEN SuggestLoop(i + 1, bpm, range_info.style, confidence)
             ELSE SuggestLoop(i + 1, bpm, best_style, best_confidence)

suggest_style_from_bpm(bpm) == SuggestLoop(1, bpm, UNKNOWN, FromInt(0))

\* fault: ska counts as a slow style
reggae_styles_with_ska == {SKA, ONE_DROP, ROCKERS, STEPPERS, ROOTS_REGGAE, DUB}

\* fault: roots reggae is missing from the family
reggae_styles_without_roots == {ONE_DROP, ROCKERS, STEPPERS, DUB}

reggae_styles == {ONE_DROP, ROCKERS, STEPPERS, ROOTS_REGGAE, DUB}

suggest_bpm_correction(bpm, detected_style) ==
    IF detected_style \in reggae_styles /\ RatLT(FromInt(130), bpm)
    THEN <<RatDiv(bpm, FromInt(2)), "halved">>
    ELSE IF detected_style = SKA /\ RatLT(bpm, FromInt(60))
    THEN <<RatMul(bpm, FromInt(2)), "doubled">>
    ELSE <<bpm, "none">>

(***************************************************************************)
(* analyzers/jamaican_bpm.py                                               *)
(***************************************************************************)
NoHint == "None"

BPMAnalysisResult(bpm_detected, bpm_corrected, style_suggested, correction_type, confidence, alternatives) ==
    [bpm_detected |-> bpm_detected, bpm_corrected |-> bpm_corrected,
     style_suggested |-> style_suggested, correction_type |-> correction_type,
     confidence |-> confidence, alternatives |-> alternatives]

\* fault: the list is left in the order of the table
SortByConfidence_unsorted(s) == s

\* list.sort(key=confidence, reverse=True): stable, equal keys keep their order
RECURSIVE InsertByConfidence(_, _)
InsertByConfidence(sorted, e) ==
    IF sorted = <<>> THEN <<e>>
    ELSE IF RatLT(Head(sorted)[2], e[2]) THEN <<e>> \o sorted
    ELSE <<Head(sorted)>> \o InsertByConfidence(Tail(sorted), e)

RECURSIVE SortByConfidence(_)
SortByConfidence(s) ==
    IF s = <<>> THEN <<>>
    ELSE InsertByConfidence(SortByConfidence(SubSeq(s, 1, Len(s) - 1)), s[Len(s)])

RECURSIVE AlternativesLoop(_, _)
AlternativesLoop(i, bpm) ==
    IF i > Len(STYLE_BPM_RANGES) THEN <<>>
    ELSE LET range_info == STYLE_BPM_RANGES[i]
         IN  IF InRange(bpm, range_info)
             THEN <<<<range_info.style,
                      RangeConfidence(bpm, range_info, Rat(3, 10))>>>>
                  \o AlternativesLoop(i + 1, bpm)
             ELSE AlternativesLoop(i + 1, bpm)

_get_style_alternatives(bpm) == SortByConfidence(AlternativesLoop(1, bpm))

\* bpm_detected stands for the tempo librosa.beat.beat_track reports for y
analyze(bpm_detected) ==
    LET guess == suggest_style_from_bpm(bpm_detected)
        style_initial == guess[1]
        confidence == guess[2]
        correction == suggest_bpm_correction(bpm_detected, style_initial)
        bpm_corrected == correction[1]
        correction_type == correction[2]
    IN  BPMAnalysisResult(
            bpm_detected, bpm_corrected,
            IF correction_type = "none" THEN style_initial
            ELSE suggest_style_from_bpm(bpm_corrected)[1],
            correction_type, confidence,
            _get_style_alternatives(bpm_corrected))

slow_styles == {ONE_DROP, ROCKERS, STEPPERS, DUB, ROCKSTEADY}

\* fault: the alternatives are ranked for the detected BPM
_apply_style_hint_correction_stale_alternatives(base, style_hint) ==
    LET bpm_detected == base.bpm_detected
        halve == style_hint \in slow_styles /\ RatLT(FromInt(130), bpm_detected)
        bpm_corrected == IF halve THEN RatDiv(bpm_detected, FromInt(2))
                         ELSE bpm_detected
        correction_type == IF halve THEN "halved" ELSE "none"
    IN  BPMAnalysisResult(bpm_detected, bpm_corrected, style_hint,
                          correction_type, Rat(9, 10),
                          _get_style_alternatives(bpm_detected))

_apply_style_hint_correction(base, style_hint) ==
    LET bpm_detected == base.bpm_detected
        halve == style_hint \in slow_styles /\ RatLT(FromInt(130), bpm_detected)
        bpm_corrected == IF halve THEN RatDiv(bpm_detected, FromInt(2))
                         ELSE bpm_detected
        correction_type == IF halve THEN "halved" ELSE "none"
    IN  BPMAnalysisResult(bpm_detected, bpm_corrected, style_hint,
                          correction_type, Rat(9, 10),
                          _get_style_alternatives(bpm_corrected))

\* round((t / beat_duration) % 4) % 4
BeatPosition(t, bpm) ==
    LET beat_duration == RatDiv(FromInt(60), bpm)
        beat_in_bar == RatMod(RatDiv(t, beat_duration), 4)
    IN  RatRound(beat_in_bar) % 4

_get_beat_positions(times, bpm, tolerance) ==
    [i \in 1..Len(times) |-> BeatPosition(times[i], bpm)]

Count(list, v) == Cardinality({i \in 1..Len(list) : list[i] = v})

\* fault: the one-drop test reads the count of beat 2 instead of beat 3
detect_style_from_pattern_wrong_beat(kick_times, snare_times, bpm) ==
    LET beat_duration == RatDiv(FromInt(60), bpm)
        tolerance == RatMul(beat_duration, Rat(15, 100))
        analysis_duration == RatMul(beat_duration, FromInt(16))
        kicks_in_range ==
            SelectSeq(kick_times, LAMBDA t : RatLT(t, analysis_duration))
        kick_beats == _get_beat_positions(kicks_in_range, bpm, tolerance)
        kick_on_1 == Count(kick_beats, 0)
        kick_on_2 == Count(kick_beats, 1)
        kick_on_3 == Count(kick_beats, 2)
        kick_on_4 == Count(kick_beats, 3)
        total_kicks == Len(kick_beats)
    IN  IF Len(kicks_in_range) < 2 THEN UNKNOWN
        ELSE IF total_kicks = 0 THEN UNKNOWN
        ELSE IF kick_on_1 > 0 /\ kick_on_2 > 0 /\ kick_on_3 > 0 /\ kick_on_4 > 0
        THEN STEPPERS
        ELSE IF /\ RatLT(Rat(6, 10), Rat(kick_on_2, total_kicks))
                /\ RatLT(Rat(kick_on_1, total_kicks), Rat(2, 10))
        THEN ONE_DROP
        ELSE IF RatLT(Rat(7, 10), Rat(kick_on_1 + kick_on_3, total_kicks))
        THEN IF RatLT(FromInt(110), bpm) THEN SKA ELSE ROCKERS
        ELSE UNKNOWN

\* fault: a one-drop also needs a snare on beat 3
detect_style_from_pattern_snare_on_3(kick_times, snare_times, bpm) ==
    LET beat_duration == RatDiv(FromInt(60), bpm)
        tolerance == RatMul(beat_duration, Rat(15, 100))
        analysis_duration == RatMul(beat_duration, FromInt(16))
        kicks_in_range ==
            SelectSeq(kick_times, LAMBDA t : RatLT(t, analysis_duration))
        snares_in_range ==
            SelectSeq(snare_times, LAMBDA t : RatLT(t, analysis_duration))
        kick_beats == _get_beat_positions(kicks_in_range, bpm, tolerance)
        snare_beats == _get_beat_positions(snares_in_range, bpm, tolerance)
        kick_on_1 == Count(kick_beats, 0)
        kick_on_2 == Count(kick_beats, 1)
        kick_on_3 == Count(kick_beats, 2)
        kick_on_4 == Count(kick_beats, 3)
        snare_on_2 == Count(snare_beats, 1)
        snare_on_3 == Count(snare_beats, 2)
        snare_on_4 == Count(snare_beats, 3)
        total_kicks == Len(kick_beats)
    IN  IF Len(kicks_in_range) < 2 THEN UNKNOWN
        ELSE IF total_kicks = 0 THEN UNKNOWN
        ELSE IF kick_on_1 > 0 /\ kick_on_2 > 0 /\ kick_on_3 > 0 /\ kick_on_4 > 0
        THEN STEPPERS
        ELSE IF /\ RatLT(Rat(6, 10), Rat(kick_on_3, total_kicks))
                /\ RatLT(Rat(kick_on_1, total_kicks), Rat(2, 10))
                /\ snare_on_3 > 0
        THEN ONE_DROP
        ELSE IF RatLT(Rat(7, 10), Rat(kick_on_1 + kick_on_3, total_kicks))
        THEN IF RatLT(FromInt(110), bpm) THEN SKA ELSE ROCKERS
        ELSE UNKNOWN

detect_style_from_pattern(kick_times, snare_times, bpm) ==
    LET beat_duration == RatDiv(FromInt(60), bpm)
        tolerance == RatMul(beat_duration, Rat(15, 100))
        analysis_duration == RatMul(beat_duration, FromInt(16))
        kicks_in_range ==
            SelectSeq(kick_times, LAMBDA t : RatLT(t, analysis_duration))
        snares_in_range ==
            SelectSeq(snare_times, LAMBDA t : RatLT(t, analysis_duration))
        kick_beats == _get_beat_positions(kicks_in_range, bpm, tolerance)
        snare_beats == _get_beat_positions(snares_in_range, bpm, tolerance)
        kick_on_1 == Count(kick_beats, 0)
        kick_on_2 == Count(kick_beats, 1)
        kick_on_3 == Count(kick_beats, 2)
        kick_on_4 == Count(kick_beats, 3)
        snare_on_2 == Count(snare_beats, 1)
        snare_on_3 == Count(snare_beats, 2)
        snare_on_4 == Count(snare_beats, 3)
        total_kicks == Len(kick_beats)
    IN  IF Len(kicks_in_range) < 2 THEN UNKNOWN
        ELSE IF total_kicks = 0 THEN UNKNOWN
        ELSE IF kick_on_1 > 0 /\ kick_on_2 > 0 /\ kick_on_3 > 0 /\ kick_on_4 > 0
        THEN STEPPERS
        ELSE IF /\ RatLT(Rat(6, 10), Rat(kick_on_3, total_kicks))
                /\ RatLT(Rat(kick_on_1, total_kicks), Rat(2, 10))
        THEN ONE_DROP
        ELSE IF RatLT(Rat(7, 10), Rat(kick_on_1 + kick_on_3, total_kicks))
        THEN IF RatLT(FromInt(110), bpm) THEN SKA ELSE ROCKERS
        ELSE UNKNOWN

\* fault: a pattern of a slow style halves the BPM twice
refine_bpm_with_pattern_halved_twice(bpm_detected, pattern_style, base_result) ==
    LET high == RatLT(FromInt(130), bpm_detected)
        correction ==
            IF ~high THEN <<bpm_detected, "none">>
            ELSE IF pattern_style = SKA THEN <<bpm_detected, "none">>
            ELSE IF pattern_style \in {ONE_DROP, STEPPERS, ROCKERS}
            THEN <<RatDiv(bpm_detected, FromInt(4)), "halved">>
            ELSE suggest_bpm_correction(bpm_detected, pattern_style)
        bpm_corrected == correction[1]
        correction_type == correction[2]
        confidence == suggest_style_from_bpm(bpm_corrected)[2]
    IN  BPMAnalysisResult(bpm_detected, bpm_corrected, pattern_style,
                          correction_type, confidence,
                          _get_style_alternatives(bpm_corrected))

\* fault: a rockers pattern is taken for a genuinely fast tempo, like ska
refine_bpm_with_pattern_rockers_kept(bpm_detected, pattern_style, base_result) ==
    LET high == RatLT(FromInt(130), bpm_detected)
        correction ==
            IF ~high THEN <<bpm_detected, "none">>
            ELSE IF pattern_style \in {SKA, ROCKERS} THEN <<bpm_detected, "none">>
            ELSE IF pattern_style \in {ONE_DROP, STEPPERS}
            THEN <<RatDiv(bpm_detected, FromInt(2)), "halved">>
            ELSE suggest_bpm_correction(bpm_detected, pattern_style)
        bpm_corrected == correction[1]
        correction_type == correction[2]
        confidence == suggest_style_from_bpm(bpm_corrected)[2]
    IN  BPMAnalysisResult(bpm_detected, bpm_corrected, pattern_style,
                          correction_type, confidence,
                          _get_style_alternatives(bpm_corrected))

refine_bpm_with_pattern(bpm_detected, pattern_style, base_result) ==
    LET high == RatLT(FromInt(130), bpm_detected)
        correction ==
            IF ~high THEN <<bpm_detected, "none">>
            ELSE IF pattern_style = SKA THEN <<bpm_detected, "none">>
            ELSE IF pattern_style \in {ONE_DROP, STEPPERS, ROCKERS}
            THEN <<RatDiv(bpm_detected, FromInt(2)), "halved">>
            ELSE suggest_bpm_correction(bpm_detected, pattern_style)
        bpm_corrected == correction[1]
        correction_type == correction[2]
        confidence == suggest_style_from_bpm(bpm_corrected)[2]
    IN  BPMAnalysisResult(bpm_detected, bpm_corrected, pattern_style,
                          correction_type, confidence,
                          _get_style_alternatives(bpm_corrected))

analyze_with_pattern(bpm_detected, kick_times, snare_times, style_hint) ==
    LET base == analyze(bpm_detected)
    IN  IF style_hint # NoHint /\ style_hint # UNKNOWN
        THEN _apply_style_hint_correction(base, style_hint)
        ELSE IF /\ RatLT(FromInt(130), base.bpm_detected)
                /\ Len(kick_times) > 0
                /\ Len(snare_times) > 0
        THEN refine_bpm_with_pattern(
                 base.bpm_detected,
                 detect_style_from_pattern(kick_times, snare_times,
                                           base.bpm_detected),
                 base)
        ELSE base

(***************************************************************************)
(* models/timing_data.py                                                   *)
(***************************************************************************)
PPQ == 480

\* fault: the tick position is rounded, not truncated
time_to_tick_rounded(time_seconds, bpm, ppq) ==
    LET beats == RatDiv(RatMul(time_seconds, bpm), FromInt(60))
    IN  RatRound(RatMul(beats, FromInt(ppq)))

time_to_tick(time_seconds, bpm, ppq) ==
    LET beats == RatDiv(RatMul(time_seconds, bpm), FromInt(60))
    IN  RatTrunc(RatMul(beats, FromInt(ppq)))

\* fault: the tempo factor is inverted
tick_to_time_inverted(tick, bpm, ppq) ==
    LET beats == Rat(tick, ppq)
    IN  RatDiv(RatMul(beats, bpm), FromInt(60))

tick_to_time(tick, bpm, ppq) ==
    LET beats == Rat(tick, ppq)
    IN  RatDiv(RatMul(beats, FromInt(60)), bpm)

(***************************************************************************)
(* groove_extractor.py: the extractor as its constructor leaves it         *)
(***************************************************************************)
\* Optional: None is the empty sequence, a value x is <<x>>
None == <<>>
Some(x) == <<x>>

ExtractorConfig ==
    [use_stem_separation |-> FALSE, analyze_hihat_type |-> TRUE,
     export_excel |-> TRUE, num_bars |-> None, tolerance_ms |-> FromInt(5)]

GrooveExtractor ==
    [config |-> ExtractorConfig,
     onset_detector |-> [sr |-> 22050],
     hihat_classifier |-> [sr |-> 22050],
     bpm_analyzer |-> [sr |-> 22050],
     timing_converter |-> None]

(***************************************************************************)
(* Arguments                                                               *)
(***************************************************************************)
BpmInputs == {FromInt(b) : b \in (MinBpm..MaxBpm) \cup {500}}

\* tempi on both sides of the thresholds of the pattern logic
PatternBpms ==
    {FromInt(b) : b \in {MinBpm, 110, 111, 130, 131, 152, 180, MaxBpm}}

\* the tempo tracker follows the drummer, or runs at double speed
TrackingRatios == {1, 2}

\* slots of a bar, sub per beat, that carry a hit in every one of nbars bars
Hits(pattern, nbars, sub) ==
    SelectSeq([j \in 1..(4 * sub * nbars) |-> j - 1],
              LAMBDA j : (j % (4 * sub)) \in pattern)

\* onset times (seconds, ascending) of a drummer repeating pattern at tempo
Performance(tempo, pattern, nbars, sub) ==
    LET h == Hits(pattern, nbars, sub)
    IN  [i \in 1..Len(h) |->
            RatMul(Rat(h[i], sub), RatDiv(FromInt(60), tempo))]

SnarePatterns == {{}, {2}}

InitSuggestStyle ==
    /\ op = "suggest_style_from_bpm"
    /\ \E bpm \in BpmInputs : args = [bpm |-> bpm]

InitSuggestCorrection ==
    /\ op = "suggest_bpm_correction"
    /\ \E bpm \in BpmInputs, style \in JamaicanStyle :
          args = [bpm |-> bpm, detected_style |-> style]

InitAnalyze ==
    /\ op = "analyze"
    /\ \E bpm \in BpmInputs : args = [bpm_detected |-> bpm]

InitRefine ==
    /\ op = "refine_bpm_with_pattern"
    /\ \E bpm \in BpmInputs, style \in JamaicanStyle :
          args = [bpm_detected |-> bpm, pattern_style |-> style]

InitHint ==
    /\ op = "_apply_style_hint_correction"
    /\ \E bpm \in BpmInputs, hint \in JamaicanStyle \ {UNKNOWN} :
          args = [bpm_detected |-> bpm, style_hint |-> hint]

InitDetect ==
    /\ op = "detect_style_from_pattern"
    /\ \E bpm \in PatternBpms, ratio \in TrackingRatios,
          pattern \in SUBSET (0..7), spattern \in SnarePatterns,
          nbars \in 1..MaxBars :
          args = [bpm |-> bpm,
                  kick_times |->
                      Performance(RatDiv(bpm, FromInt(ratio)), pattern, nbars, 2),
                  snare_times |->
                      Performance(RatDiv(bpm, FromInt(ratio)), spattern, nbars, 1)]

InitAnalyzeWithPattern ==
    /\ op = "analyze_with_pattern"
    /\ \E bpm \in PatternBpms, ratio \in TrackingRatios,
          pattern \in SUBSET (0..3), spattern \in SnarePatterns,
          nbars \in 1..MaxBars, hint \in JamaicanStyle \cup {NoHint} :
          args = [bpm_detected |-> bpm,
                  kick_times |->
                      Performance(RatDiv(bpm, FromInt(ratio)), pattern, nbars, 1),
                  snare_times |->
                      Performance(RatDiv(bpm, FromInt(ratio)), spattern, nbars, 1),
                  style_hint |-> hint]

Init ==
    /\ pc = "call"
    /\ result = <<>>
    /\ extractor = GrooveExtractor
    /\ \/ InitSuggestStyle
       \/ InitSuggestCorrection
       \/ InitAnalyze
       \/ InitRefine
       \/ InitHint
       \/ InitDetect
       \/ InitAnalyzeWithPattern

(***************************************************************************)
(* Calls                                                                   *)
(***************************************************************************)
Return(value) ==
    /\ result' = value
    /\ pc' = "done"
    /\ UNCHANGED <<op, args, extractor>>

SuggestStyleFromBpm ==
    /\ pc = "call" /\ op = "suggest_style_from_bpm"
    /\ Return(suggest_style_from_bpm(args.bpm))

SuggestBpmCorrection ==
    /\ pc = "call" /\ op = "suggest_bpm_correction"
    /\ Return(suggest_bpm_correction(args.bpm, args.detected_style))

Analyze ==
    /\ pc = "call" /\ op = "analyze"
    /\ Return(analyze(args.bpm_detected))

RefineBpmWithPattern ==
    /\ pc = "call" /\ op = "refine_bpm_with_pattern"
    /\ Return(refine_bpm_with_pattern(args.bpm_detected, args.pattern_style,
                                      analyze(args.bpm_detected)))

ApplyStyleHintCorrection ==
    /\ pc = "call" /\ op = "_apply_style_hint_correction"
    /\ Return(_apply_style_hint_correction(analyze(args.bpm_detected),
                                           args.style_hint))

DetectStyleFromPattern ==
    /\ pc = "call" /\ op = "detect_style_from_pattern"
    /\ Return(detect_style_from_pattern(args.kick_times, args.snare_times,
                                        args.bpm))

AnalyzeWithPattern ==
    /\ pc = "call" /\ op = "analyze_with_pattern"
    /\ Return(analyze_with_pattern(args.bpm_detected, args.kick_times,
                                   args.snare_times, args.style_hint))

Next ==
    \/ SuggestStyleFromBpm
    \/ SuggestBpmCorrection
    \/ Analyze
    \/ RefineBpmWithPattern
    \/ ApplyStyleHintCorrection
    \/ DetectStyleFromPattern
    \/ AnalyzeWithPattern

Spec == Init /\ [][Next]_vars

(***************************************************************************)
(* Calls into the grid model: a time is converted to a tick, and the tick  *)
(* back to a time                                                          *)
(***************************************************************************)
GridBpms == {FromInt(b) : b \in MinGridBpm..MaxGridBpm}

TimeInputs == {Rat(ms, 1000) : ms \in 0..MaxTimeMs}

InitGrid ==
    /\ pc = "call"
    /\ result = <<>>
    /\ extractor = GrooveExtractor
    /\ op = "time_to_tick"
    /\ \E t \in TimeInputs, bpm \in GridBpms :
          args = [time_seconds |-> t, bpm |-> bpm]

TimeToTick ==
    /\ pc = "call" /\ op = "time_to_tick"
    /\ Return(time_to_tick(args.time_seconds, args.bpm, PPQ))

\* the tick time_to_tick returned, converted back
TickToTime ==
    /\ pc = "done" /\ op = "time_to_tick"
    /\ op' = "tick_to_time"
    /\ result' = tick_to_time(result, args.bpm, PPQ)
    /\ UNCHANGED <<pc, args, extractor>>

NextGrid ==
    \/ TimeToTick
    \/ TickToTime

SpecGrid == InitGrid /\ [][NextGrid]_vars
(***************************************************************************)
(* converters/timing_converter.py                                          *)
(***************************************************************************)
STEPS_PER_BAR == 16

TimingConverter(bpm) ==
    [bpm |-> bpm, ppq |-> PPQ,
     ticks_per_step |-> PPQ \div 4, ticks_per_bar |-> PPQ * 4]

OnsetData(time, velocity, instrument) ==
    [time |-> time, velocity |-> velocity, instrument |-> instrument]

GridPosition(bar, step) == [bar |-> bar, step |-> step]

Max(a, b) == IF a < b THEN b ELSE a
Min(a, b) == IF b < a THEN b ELSE a

\* the step is the one after the tick's, never the one at or before it
quantize_tick_next_step(self, tick) ==
    LET step_index == tick \div self.ticks_per_step + 1
        quantized_tick == step_index * self.ticks_per_step
    IN  [quantized_tick |-> quantized_tick, deviation |-> tick - quantized_tick]

quantize_tick(self, tick) ==
    LET step_index == RatRound(Rat(tick, self.ticks_per_step))
        quantized_tick == step_index * self.ticks_per_step
    IN  [quantized_tick |-> quantized_tick, deviation |-> tick - quantized_tick]

\* the step counted from 0
tick_to_grid_position_zero_based(self, tick) ==
    LET bar == tick \div self.ticks_per_bar + 1
        tick_in_bar == tick % self.ticks_per_bar
        step == tick_in_bar \div self.ticks_per_step
    IN  GridPosition(bar, Max(1, Min(STEPS_PER_BAR, step)))

tick_to_grid_position(self, tick) ==
    LET bar == tick \div self.ticks_per_bar + 1
        tick_in_bar == tick % self.ticks_per_bar
        step == tick_in_bar \div self.ticks_per_step + 1
    IN  GridPosition(bar, Max(1, Min(STEPS_PER_BAR, step)))

TickData(tick, quantized_tick, deviation_ticks, deviation_ms, grid_position) ==
    [tick |-> tick, quantized_tick |-> quantized_tick,
     deviation_ticks |-> deviation_ticks, deviation_ms |-> deviation_ms,
     grid_position |-> grid_position]

\* the grid position of the raw tick
onset_to_tick_data_raw_grid(self, onset) ==
    LET tick == time_to_tick(onset.time, self.bpm, self.ppq)
        q == quantize_tick(self, tick)
        grid_position == tick_to_grid_position(self, tick)
        ms == RatMul(tick_to_time(Abs(q.deviation), self.bpm, self.ppq),
                     FromInt(1000))
        deviation_ms == IF q.deviation < 0 THEN RatSub(FromInt(0), ms) ELSE ms
    IN  TickData(tick, q.quantized_tick, q.deviation, deviation_ms,
                 grid_position)

\* the deviation in ms without the sign of the deviation in ticks
onset_to_tick_data_unsigned(self, onset) ==
    LET tick == time_to_tick(onset.time, self.bpm, self.ppq)
        q == quantize_tick(self, tick)
        grid_position == tick_to_grid_position(self, q.quantized_tick)
        ms == RatMul(tick_to_time(Abs(q.deviation), self.bpm, self.ppq),
                     FromInt(1000))
    IN  TickData(tick, q.quantized_tick, q.deviation, ms, grid_position)

onset_to_tick_data(self, onset) ==
    LET tick == time_to_tick(onset.time, self.bpm, self.ppq)
        q == quantize_tick(self, tick)
        grid_position == tick_to_grid_position(self, q.quantized_tick)
        ms == RatMul(tick_to_time(Abs(q.deviation), self.bpm, self.ppq),
                     FromInt(1000))
        deviation_ms == IF q.deviation < 0 THEN RatSub(FromInt(0), ms) ELSE ms
    IN  TickData(tick, q.quantized_tick, q.deviation, deviation_ms,
                 grid_position)

onsets_to_tick_data(self, onsets) ==
    [i \in 1..Len(onsets) |-> onset_to_tick_data(self, onsets[i])]

(***************************************************************************)
(* Calls into the timing converter, one tick or one onset at a time        *)
(***************************************************************************)
TickInputs == 0..MaxTick

OnsetTimeInputs == {Rat(ms, 1000) : ms \in 0..MaxOnsetMs}

InitQuantize ==
    /\ pc = "call"
    /\ result = <<>>
    /\ extractor = GrooveExtractor
    /\ \/ /\ op \in {"quantize_tick", "tick_to_grid_position"}
          /\ \E tick \in TickInputs, bpm \in GridBpms :
                args = [self |-> TimingConverter(bpm), tick |-> tick]
       \/ /\ op = "onset_to_tick_data"
          /\ \E t \in OnsetTimeInputs, bpm \in {FromInt(MinGridBpm), FromInt(MaxGridBpm)} :
                args = [self |-> TimingConverter(bpm), onset |-> OnsetData(t, 100, "unknown")]

QuantizeTick ==
    /\ pc = "call" /\ op = "quantize_tick"
    /\ Return(quantize_tick(args.self, args.tick))

\* the quantized tick quantize_tick returned, quantized again
QuantizeTickAgain ==
    /\ pc = "done" /\ op = "quantize_tick"
    /\ op' = "quantize_tick_again"
    /\ result' = [first |-> result,
                  second |-> quantize_tick(args.self, result.quantized_tick)]
    /\ UNCHANGED <<pc, args, extractor>>

TickToGridPosition ==
    /\ pc = "call" /\ op = "tick_to_grid_position"
    /\ Return(tick_to_grid_position(args.self, args.tick))

OnsetToTickData ==
    /\ pc = "call" /\ op = "onset_to_tick_data"
    /\ Return(onset_to_tick_data(args.self, args.onset))

NextQuantize ==
    \/ QuantizeTick
    \/ QuantizeTickAgain
    \/ TickToGridPosition
    \/ OnsetToTickData

SpecQuantize == InitQuantize /\ [][NextQuantize]_vars

(***************************************************************************)
(* converters/timing_converter.py: bars and humanization statistics        *)
(***************************************************************************)
BarData(bar_number, ticks, pattern, velocities) ==
    [bar_number |-> bar_number, ticks |-> ticks,
     pattern |-> pattern, velocities |-> velocities]

\* list.index(x): the first position holding a value equal to x
Index(list, x) ==
    CHOOSE i \in 1..Len(list) :
        list[i] = x /\ \A j \in 1..(i - 1) : list[j] # x

\* [td for td in tick_data_list if td.grid_position.bar == bar_num]
RECURSIVE BarTicks(_, _, _)
BarTicks(tick_data_list, bar_num, i) ==
    IF i > Len(tick_data_list) THEN <<>>
    ELSE IF tick_data_list[i].grid_position.bar = bar_num
         THEN <<tick_data_list[i]>> \o BarTicks(tick_data_list, bar_num, i + 1)
         ELSE BarTicks(tick_data_list, bar_num, i + 1)

MaxBarOf(tick_data_list) ==
    CHOOSE b \in {tick_data_list[i].grid_position.bar : i \in 1..Len(tick_data_list)} :
        \A i \in 1..Len(tick_data_list) : tick_data_list[i].grid_position.bar <= b

\* for td in bar_ticks: mark the step, take the velocity of the first onset
\* whose TickData equals td
RECURSIVE FillBar(_, _, _, _, _, _)
FillBar(bar_ticks, k, tick_data_list, onsets, pattern, velocities) ==
    IF k > Len(bar_ticks) THEN [pattern |-> pattern, velocities |-> velocities]
    ELSE LET td == bar_ticks[k]
             step_idx == td.grid_position.step - 1
             onset_idx == Index(tick_data_list, td)
         IN  IF 0 <= step_idx /\ step_idx < STEPS_PER_BAR
             THEN FillBar(bar_ticks, k + 1, tick_data_list, onsets,
                          [pattern EXCEPT ![step_idx + 1] = 1],
                          IF onset_idx <= Len(onsets)
                          THEN [velocities EXCEPT
                                  ![step_idx + 1] = onsets[onset_idx].velocity]
                          ELSE velocities)
             ELSE FillBar(bar_ticks, k + 1, tick_data_list, onsets,
                          pattern, velocities)

BarOf(tick_data_list, onsets, bar_num) ==
    LET bar_ticks == BarTicks(tick_data_list, bar_num, 1)
        zeros == [s \in 1..STEPS_PER_BAR |-> 0]
        filled == FillBar(bar_ticks, 1, tick_data_list, onsets, zeros, zeros)
    IN  BarData(bar_num, bar_ticks, filled.pattern, filled.velocities)

\* the loop stops one bar early
onsets_to_bar_data_without_last_bar(self, onsets, num_bars) ==
    IF Len(onsets) = 0 THEN <<>>
    ELSE LET tick_data_list == onsets_to_tick_data(self, onsets)
             n == IF num_bars = None THEN MaxBarOf(tick_data_list)
                  ELSE num_bars[1]
         IN  [bar_num \in 1..(n - 1) |-> BarOf(tick_data_list, onsets, bar_num)]

onsets_to_bar_data(self, onsets, num_bars) ==
    IF Len(onsets) = 0 THEN <<>>
    ELSE LET tick_data_list == onsets_to_tick_data(self, onsets)
             n == IF num_bars = None THEN MaxBarOf(tick_data_list)
                  ELSE num_bars[1]
         IN  [bar_num \in 1..n |-> BarOf(tick_data_list, onsets, bar_num)]

HumanizationStats(rushing_percent, dragging_percent, on_grid_percent, avg_deviation_ms, max_deviation_ms) ==
    [rushing_percent |-> rushing_percent,
     dragging_percent |-> dragging_percent,
     on_grid_percent |-> on_grid_percent,
     avg_deviation_ms |-> avg_deviation_ms,
     max_deviation_ms |-> max_deviation_ms]

\* sum(abs(d) for d in deviations)
RECURSIVE SumAbs(_, _)
SumAbs(deviations, i) ==
    IF i > Len(deviations) THEN FromInt(0)
    ELSE RatAdd(RatAbs(deviations[i]), SumAbs(deviations, i + 1))

\* max(abs(d) for d in deviations), deviations not empty
RECURSIVE MaxAbs(_, _)
MaxAbs(deviations, i) ==
    IF i = Len(deviations) THEN RatAbs(deviations[i])
    ELSE RatMax(RatAbs(deviations[i]), MaxAbs(deviations, i + 1))

Percent(count, total) == RatMul(Rat(count, total), FromInt(100))

\* a deviation of exactly the tolerance is left out of the on-grid class
get_humanization_stats_strict_on_grid(self, tick_data_list, tolerance_ms) ==
    IF Len(tick_data_list) = 0
    THEN HumanizationStats(FromInt(0), FromInt(0), FromInt(0), FromInt(0), FromInt(0))
    ELSE LET deviations == [i \in 1..Len(tick_data_list) |->
                               tick_data_list[i].deviation_ms]
             idx == 1..Len(deviations)
             minus_tol == RatSub(FromInt(0), tolerance_ms)
             rushing == Cardinality({i \in idx : RatLT(deviations[i], minus_tol)})
             dragging == Cardinality({i \in idx : RatLT(tolerance_ms, deviations[i])})
             on_grid == Cardinality({i \in idx :
                                       RatLT(RatAbs(deviations[i]), tolerance_ms)})
             total == Len(deviations)
         IN  HumanizationStats(Percent(rushing, total), Percent(dragging, total),
                               Percent(on_grid, total),
                               RatDiv(SumAbs(deviations, 1), FromInt(total)),
                               MaxAbs(deviations, 1))

get_humanization_stats(self, tick_data_list, tolerance_ms) ==
    IF Len(tick_data_list) = 0
    THEN HumanizationStats(FromInt(0), FromInt(0), FromInt(0), FromInt(0), FromInt(0))
    ELSE LET deviations == [i \in 1..Len(tick_data_list) |->
                               tick_data_list[i].deviation_ms]
             idx == 1..Len(deviations)
             minus_tol == RatSub(FromInt(0), tolerance_ms)
             rushing == Cardinality({i \in idx : RatLT(deviations[i], minus_tol)})
             dragging == Cardinality({i \in idx : RatLT(tolerance_ms, deviations[i])})
             on_grid == Cardinality({i \in idx :
                                       RatLE(RatAbs(deviations[i]), tolerance_ms)})
             total == Len(deviations)
         IN  HumanizationStats(Percent(rushing, total), Percent(dragging, total),
                               Percent(on_grid, total),
                               RatDiv(SumAbs(deviations, 1), FromInt(total)),
                               MaxAbs(deviations, 1))

(***************************************************************************)
(* Calls into the timing converter with a list of onsets                   *)
(***************************************************************************)
\* onset times in ms; at 75 BPM a tick lasts 5/3 ms and a bar 3200 ms
OnsetListTimes ==
    {Rat(ms, 1000) : ms \in {90, 100, 101, 110, 3150, 3200, 6500}}

Velocities == {64, 100}

\* the detector reports its onsets in order of time
OnsetLists ==
    UNION {{[i \in 1..n |-> OnsetData(ts[i], vs[i], "unknown")] :
              ts \in {s \in [1..n -> OnsetListTimes] :
                         \A i \in 1..n, j \in 1..n :
                             i < j => RatLT(s[i], s[j])},
              vs \in [1..n -> Velocities]} : n \in 0..MaxOnsets}

NumBarsInputs == {None} \cup {Some(n) : n \in 0..MaxNumBars}

BarBpms == {FromInt(75)}

InitBars ==
    /\ pc = "call"
    /\ result = <<>>
    /\ extractor = GrooveExtractor
    /\ op = "onsets_to_bar_data"
    /\ \E onsets \in OnsetLists, num_bars \in NumBarsInputs, bpm \in BarBpms :
          args = [self |-> TimingConverter(bpm), onsets |-> onsets,
                  num_bars |-> num_bars]

OnsetsToBarData ==
    /\ pc = "call" /\ op = "onsets_to_bar_data"
    /\ Return(onsets_to_bar_data(args.self, args.onsets, args.num_bars))

\* tolerances in ms: none, the default of 5.0, and one equal to a deviation
Tolerances == {FromInt(0), FromInt(5), FromInt(50)}

InitStats ==
    /\ pc = "call"
    /\ result = <<>>
    /\ extractor = GrooveExtractor
    /\ op = "get_humanization_stats"
    /\ \E onsets \in OnsetLists, tolerance_ms \in Tolerances, bpm \in BarBpms :
          LET self == TimingConverter(bpm)
          IN  args = [self |-> self,
                      tick_data_list |-> onsets_to_tick_data(self, onsets),
                      tolerance_ms |-> tolerance_ms]

GetHumanizationStats ==
    /\ pc = "call" /\ op = "get_humanization_stats"
    /\ Return(get_humanization_stats(args.self, args.tick_data_list,
                                     args.tolerance_ms))

NextBars ==
    \/ OnsetsToBarData
    \/ GetHumanizationStats

SpecBars == (InitBars \/ InitStats) /\ [][NextBars]_vars

(***************************************************************************)
(* models/swing_analysis.py and analyzers/swing_calculator.py              *)
(***************************************************************************)
SwingConfig == [min_intervals |-> 4, tolerance_ms |-> FromInt(10)]

\* SwingAnalysis with the description __post_init__ fills in when none is
\* given
SwingAnalysis(swing_percentage, swing_ratio, is_swung, confidence, description) ==
    [swing_percentage |-> swing_percentage, swing_ratio |-> swing_ratio,
     is_swung |-> is_swung, confidence |-> confidence,
     description |->
        IF description # "" THEN description
        ELSE IF RatLT(swing_percentage, FromInt(52)) THEN "Straight (sin swing)"
        ELSE IF RatLT(swing_percentage, FromInt(58)) THEN "Swing ligero"
        ELSE IF RatLT(swing_percentage, FromInt(64)) THEN "Swing moderado"
        ELSE "Shuffle/swing pesado"]

\* a float64 divided by 0.0: numpy returns inf and goes on
Inf == <<1, 0>>
IsFinite(x) == Den(x) # 0
Float64Div(x, y) == IF Num(y) = 0 THEN Inf ELSE RatDiv(x, y)

\* the integer square root, by bisection
RECURSIVE ISqrtBetween(_, _, _)
ISqrtBetween(v, lo, hi) ==
    IF hi - lo <= 1 THEN lo
    ELSE LET mid == (lo + hi) \div 2
         IN  IF mid * mid <= v THEN ISqrtBetween(v, mid, hi)
             ELSE ISqrtBetween(v, lo, mid)

\* the square root of x in 0..1, exact when it is a multiple of
\* 1 / (SqrtScale * Den(x)), else the nearest such multiple below it
SqrtScale == 100
RatSqrt(x) ==
    LET v == Num(x) * Den(x) * SqrtScale * SqrtScale
    IN  Rat(ISqrtBetween(v, 0, Den(x) * SqrtScale + 1), Den(x) * SqrtScale)

RECURSIVE RatSum(_, _)
RatSum(list, i) ==
    IF i > Len(list) THEN FromInt(0)
    ELSE RatAdd(list[i], RatSum(list, i + 1))

\* np.mean and np.std of a list that is not empty
Mean(list) == RatDiv(RatSum(list, 1), FromInt(Len(list)))
Std(list) ==
    LET m == Mean(list)
        squares == [i \in 1..Len(list) |->
                       RatMul(RatSub(list[i], m), RatSub(list[i], m))]
    IN  RatSqrt(Mean(squares))

\* for i in range(0, len(intervals) - 1, stride): the ratio of the longer
\* interval of the pair (i, i + 1) to the pair's total, where the total is
\* positive (i counts from 1 here)
RECURSIVE PairRatios(_, _, _)
PairRatios(intervals, i, stride) ==
    IF i > Len(intervals) - 1 THEN <<>>
    ELSE LET long_interval == RatMax(intervals[i], intervals[i + 1])
             short_interval == RatMin(intervals[i], intervals[i + 1])
             total == RatAdd(long_interval, short_interval)
             rest == PairRatios(intervals, i + stride, stride)
         IN  IF RatLT(FromInt(0), total)
             THEN <<RatDiv(long_interval, total)>> \o rest
             ELSE rest

InsufficientData(description) ==
    SwingAnalysis(FromInt(50), FromInt(1), FALSE, FromInt(0), description)

SwingOfRatios(swing_ratios) ==
    IF Len(swing_ratios) = 0
    THEN InsufficientData("No se pudieron calcular ratios")
    ELSE LET mean_ratio == Mean(swing_ratios)
             std_ratio == Std(swing_ratios)
             swing_percentage == RatMul(mean_ratio, FromInt(100))
             swing_ratio ==
                 IF RatLE(mean_ratio, Rat(1, 2)) THEN FromInt(1)
                 ELSE Float64Div(mean_ratio, RatSub(FromInt(1), mean_ratio))
             is_swung == RatLT(FromInt(52), swing_percentage)
             confidence ==
                 RatMax(FromInt(0),
                        RatSub(FromInt(1),
                               RatMin(FromInt(1),
                                      RatMul(std_ratio, FromInt(10)))))
         IN  SwingAnalysis(swing_percentage, swing_ratio, is_swung,
                           confidence, "")

\* the pairs overlap: (i, i + 1), (i + 1, i + 2), ...
calculate_from_intervals_overlapping_pairs(config, intervals) ==
    IF Len(intervals) < config.min_intervals
    THEN InsufficientData("Datos insuficientes")
    ELSE SwingOfRatios(PairRatios(intervals, 1, 1))

calculate_from_intervals(config, intervals) ==
    IF Len(intervals) < config.min_intervals
    THEN InsufficientData("Datos insuficientes")
    ELSE SwingOfRatios(PairRatios(intervals, 1, 2))

\* the dict: a style without an entry is outside the function's domain
SWING_RANGES_BY_STYLE ==
    (SKA :> <<FromInt(50), FromInt(55)>>) @@ (ROCKSTEADY :> <<FromInt(52), FromInt(60)>>)
    @@ (ONE_DROP :> <<FromInt(55), FromInt(65)>>) @@ (ROCKERS :> <<FromInt(50), FromInt(58)>>)
    @@ (STEPPERS :> <<FromInt(50), FromInt(55)>>)

\* the message compare_to_style formats, without the numbers in it
compare_to_style(swing, style) ==
    IF style \notin DOMAIN SWING_RANGES_BY_STYLE
    THEN "sin rango de swing definido"
    ELSE LET min_swing == SWING_RANGES_BY_STYLE[style][1]
             max_swing == SWING_RANGES_BY_STYLE[style][2]
         IN  IF RatLT(swing.swing_percentage, min_swing)
             THEN "por debajo del rango tipico"
             ELSE IF RatLT(max_swing, swing.swing_percentage)
             THEN "por encima del rango tipico"
             ELSE "dentro del rango tipico"

(***************************************************************************)
(* Calls into the swing calculator                                         *)
(***************************************************************************)
\* intervals in seconds: a short and a long eighth note, and two onsets at
\* the same time
IntervalValues == {FromInt(0), Rat(1, 4), Rat(1, 2)}

IntervalLists == UNION {[1..n -> IntervalValues] : n \in 0..MaxIntervals}

InitSwing ==
    /\ pc = "call"
    /\ result = <<>>
    /\ extractor = GrooveExtractor
    /\ op = "calculate_from_intervals"
    /\ \E intervals \in IntervalLists :
          args = [config |-> SwingConfig, intervals |-> intervals]

CalculateFromIntervals ==
    /\ pc = "call" /\ op = "calculate_from_intervals"
    /\ Return(calculate_from_intervals(args.config, args.intervals))

\* the swings calculate_from_intervals measures on the shortest lists it
\* accepts
MeasuredSwings ==
    {calculate_from_intervals(SwingConfig, intervals) :
        intervals \in [1..SwingConfig.min_intervals -> IntervalValues]}

InitCompare ==
    /\ pc = "call"
    /\ result = <<>>
    /\ extractor = GrooveExtractor
    /\ op = "compare_to_style"
    /\ \E swing \in MeasuredSwings, style \in JamaicanStyle :
          args = [swing |-> swing, style |-> style]

CompareToStyle ==
    /\ pc = "call" /\ op = "compare_to_style"
    /\ Return(compare_to_style(args.swing, args.style))

NextSwing ==
    \/ CalculateFromIntervals
    \/ CompareToStyle

SpecSwing == (InitSwing \/ InitCompare) /\ [][NextSwing]_vars

(***************************************************************************)
(* models/hihat_types.py and classifiers/hihat_classifier.py               *)
(***************************************************************************)
HiHatType == [CLOSED |-> "closed", OPEN |-> "open", UNKNOWN |-> "unknown"]

HiHatThresholds ==
    [decay_open |-> Rat(200, 1000), decay_closed |-> Rat(100, 1000),
     weight_decay |-> Rat(40, 100), weight_amp |-> Rat(25, 100),
     weight_temporal |-> Rat(20, 100), weight_spectral |-> Rat(15, 100)]

HiHatFeatures(decay_time, amp_100ms, temporal_centroid, spectral_flatness) ==
    [decay_time |-> decay_time, amp_100ms |-> amp_100ms,
     temporal_centroid |-> temporal_centroid,
     spectral_flatness |-> spectral_flatness]

HiHatClassification(hit_type, confidence) ==
    [hit_type |-> hit_type, confidence |-> confidence]

\* the confidence of the uncertainty zone without its cap of 0.7
_classify_from_features_uncapped(th, features) ==
    IF RatLT(features.decay_time, th.decay_closed)
    THEN LET confidence ==
                 RatAdd(Rat(8, 10),
                        RatMul(Rat(2, 10),
                               RatSub(FromInt(1),
                                      RatDiv(features.decay_time, th.decay_closed))))
         IN  HiHatClassification(HiHatType.CLOSED, RatMin(FromInt(1), confidence))
    ELSE IF RatLT(th.decay_open, features.decay_time)
    THEN LET confidence ==
                 RatAdd(Rat(8, 10),
                        RatMul(Rat(2, 10),
                               RatMin(FromInt(1),
                                      RatDiv(RatSub(features.decay_time, th.decay_open),
                                             th.decay_open))))
         IN  HiHatClassification(HiHatType.OPEN, RatMin(FromInt(1), confidence))
    ELSE LET decay_normalized ==
                 RatDiv(RatSub(features.decay_time, th.decay_closed),
                        RatSub(th.decay_open, th.decay_closed))
             amp_normalized ==
                 RatMin(FromInt(1), RatDiv(features.amp_100ms, Rat(1, 10)))
             centroid_normalized ==
                 RatMin(FromInt(1), RatDiv(features.temporal_centroid, Rat(15, 100)))
             score ==
                 RatAdd(RatAdd(RatMul(decay_normalized, th.weight_decay),
                               RatMul(amp_normalized, th.weight_amp)),
                        RatAdd(RatMul(centroid_normalized, th.weight_temporal),
                               RatMul(features.spectral_flatness, th.weight_spectral)))
         IN  IF RatLT(Rat(1, 2), score)
             THEN HiHatClassification(HiHatType.OPEN,
                      RatAdd(Rat(1, 2), RatSub(score, Rat(1, 2))))
             ELSE HiHatClassification(HiHatType.CLOSED,
                      RatAdd(Rat(1, 2), RatSub(Rat(1, 2), score)))

_classify_from_features(th, features) ==
    IF RatLT(features.decay_time, th.decay_closed)
    THEN LET confidence ==
                 RatAdd(Rat(8, 10),
                        RatMul(Rat(2, 10),
                               RatSub(FromInt(1),
                                      RatDiv(features.decay_time, th.decay_closed))))
         IN  HiHatClassification(HiHatType.CLOSED, RatMin(FromInt(1), confidence))
    ELSE IF RatLT(th.decay_open, features.decay_time)
    THEN LET confidence ==
                 RatAdd(Rat(8, 10),
                        RatMul(Rat(2, 10),
                               RatMin(FromInt(1),
                                      RatDiv(RatSub(features.decay_time, th.decay_open),
                                             th.decay_open))))
         IN  HiHatClassification(HiHatType.OPEN, RatMin(FromInt(1), confidence))
    ELSE LET decay_normalized ==
                 RatDiv(RatSub(features.decay_time, th.decay_closed),
                        RatSub(th.decay_open, th.decay_closed))
             amp_normalized ==
                 RatMin(FromInt(1), RatDiv(features.amp_100ms, Rat(1, 10)))
             centroid_normalized ==
                 RatMin(FromInt(1), RatDiv(features.temporal_centroid, Rat(15, 100)))
             score ==
                 RatAdd(RatAdd(RatMul(decay_normalized, th.weight_decay),
                               RatMul(amp_normalized, th.weight_amp)),
                        RatAdd(RatMul(centroid_normalized, th.weight_temporal),
                               RatMul(features.spectral_flatness, th.weight_spectral)))
         IN  IF RatLT(Rat(1, 2), score)
             THEN HiHatClassification(HiHatType.OPEN,
                      RatMin(Rat(7, 10), RatAdd(Rat(1, 2), RatSub(score, Rat(1, 2)))))
             ELSE HiHatClassification(HiHatType.CLOSED,
                      RatMin(Rat(7, 10), RatAdd(Rat(1, 2), RatSub(Rat(1, 2), score))))

\* classify, from the length of the segment _extract_segment cut out and
\* the features _extract_features measured on it
classify(th, segment_len, features) ==
    IF segment_len < 100 THEN HiHatClassification(HiHatType.UNKNOWN, FromInt(0))
    ELSE _classify_from_features(th, features)

(***************************************************************************)
(* Calls into the hi-hat classifier                                        *)
(***************************************************************************)
\* segment lengths in samples: up to 300 ms at 22050 Hz
SegmentLengths == {0, 99, 100, 6615}

\* decay times in s, every 10 ms
DecayTimes == {Rat(10 * k, 1000) : k \in 0..MaxDecaySteps}

FeatureInputs ==
    {HiHatFeatures(d, a, c, f) :
        d \in DecayTimes,
        a \in {FromInt(0), Rat(5, 100), Rat(2, 10)},
        c \in {FromInt(0), Rat(75, 1000), Rat(3, 10)},
        f \in {FromInt(0), Rat(1, 2), FromInt(1)}}

InitHiHat ==
    /\ pc = "call"
    /\ result = <<>>
    /\ extractor = GrooveExtractor
    /\ op = "classify"
    /\ \E n \in SegmentLengths, features \in FeatureInputs :
          args = [th |-> HiHatThresholds, segment_len |-> n,
                  features |-> features]

Classify ==
    /\ pc = "call" /\ op = "classify"
    /\ Return(classify(args.th, args.segment_len, args.features))

NextHiHat ==
    \/ Classify

SpecHiHat == InitHiHat /\ [][NextHiHat]_vars

(***************************************************************************)
(* groove_extractor.py: extract, run by callers that share one extractor   *)
(***************************************************************************)
Runs == {1, 2}

Instruments == <<"kick", "snare", "hihat">>

\* what the tempo tracker and the onset detector find in an audio file: a
\* drummer playing one bar at the detected tempo
\* and hi-hat hits that all sound alike
Track(bpm_detected, kick_pattern, hihat_sound) ==
    [bpm_detected |-> bpm_detected,
     kick |-> Performance(bpm_detected, kick_pattern, 1, 1),
     snare |-> Performance(bpm_detected, {2}, 1, 1),
     hihat |-> Performance(bpm_detected, 0..7, 1, 2),
     hihat_sound |-> hihat_sound]

\* the segment after a hi-hat onset: a short closed hit, or a hit cut off by
\* the end of the audio
HiHatSounds ==
    {[segment_len |-> 6615,
      features |-> HiHatFeatures(Rat(50, 1000), FromInt(0), Rat(75, 1000),
                                 Rat(1, 2))],
     [segment_len |-> 99,
      features |-> HiHatFeatures(FromInt(0), FromInt(0), FromInt(0), FromInt(0))]}

Tracks ==
    {Track(FromInt(b), kick_pattern, hihat_sound) :
        b \in {120, 152}, kick_pattern \in {{}, {2}},
        hihat_sound \in HiHatSounds}

\* detect_kick, detect_snare, detect_hihat
DetectOnsets(track, name) ==
    [i \in 1..Len(track[name]) |-> OnsetData(track[name][i], 100, name)]

\* classify_onsets: one classification per onset
classify_onsets(th, track, onsets) ==
    [i \in 1..Len(onsets) |->
        classify(th, track.hihat_sound.segment_len, track.hihat_sound.features)]

\* _process_hihat, lines 168-176: the onsets of the detector, their
\* instrument rewritten in place when the hi-hat type is analyzed
_process_hihat_onsets(config, th, track) ==
    LET onsets == DetectOnsets(track, "hihat")
    IN  IF config.analyze_hihat_type /\ Len(onsets) > 0
        THEN LET classifications == classify_onsets(th, track, onsets)
             IN  [i \in 1..Len(onsets) |->
                     [onsets[i] EXCEPT !.instrument =
                         "hihat_" \o classifications[i].hit_type]]
        ELSE onsets

calculate_from_onsets(config, onsets) ==
    IF Len(onsets) < 2 THEN InsufficientData("Datos insuficientes")
    ELSE calculate_from_intervals(config,
             [i \in 1..(Len(onsets) - 1) |->
                 RatSub(onsets[i + 1].time, onsets[i].time)])

\* GridMapping of a bar: the deviation in ms of the last tick of each step
GridMapping(bar_data) ==
    [pattern |-> bar_data.pattern, velocities |-> bar_data.velocities,
     timing_deviations |->
        [s \in 1..STEPS_PER_BAR |->
            LET at == {k \in 1..Len(bar_data.ticks) :
                          bar_data.ticks[k].grid_position.step = s}
            IN  IF at = {} THEN FromInt(0)
                ELSE bar_data.ticks[CHOOSE k \in at :
                                        \A j \in at : j <= k].deviation_ms]]

InstrumentData(name, onsets, bar_data_list, humanization) ==
    [name |-> name, onsets |-> onsets,
     grids |-> [b \in 1..Len(bar_data_list) |-> GridMapping(bar_data_list[b])],
     humanization |-> humanization]

At(label, inst) == [at |-> label, inst |-> inst]

InitExtract ==
    /\ op = "extract"
    /\ extractor = GrooveExtractor
    /\ pc = [r \in Runs |-> At("load", 1)]
    /\ args \in [Runs -> [audio : Tracks, style_hint : {NoHint}]]
    /\ result = [r \in Runs |->
                    [bpm_result |-> None, groove |-> None, onsets |-> <<>>,
                     tick_data_list |-> <<>>]]

\* lines 80-85: load the audio at 22050 Hz and store the rate in the components
LoadAudio(r) ==
    /\ pc[r].at = "load"
    /\ LET sr == 22050
       IN  extractor' = [extractor EXCEPT !.onset_detector.sr = sr,
                                          !.hihat_classifier.sr = sr,
                                          !.bpm_analyzer.sr = sr]
    /\ pc' = [pc EXCEPT ![r] = At("analyze_bpm", 1)]
    /\ UNCHANGED <<op, args, result>>

\* line 107: _analyze_bpm
AnalyzeBpm(r) ==
    /\ pc[r].at = "analyze_bpm"
    /\ LET audio == args[r].audio
           bpm_result ==
               analyze_with_pattern(audio.bpm_detected, audio.kick,
                                    audio.snare, args[r].style_hint)
       IN  result' = [result EXCEPT ![r].bpm_result = Some(bpm_result)]
    /\ pc' = [pc EXCEPT ![r] = At("init_converter", 1)]
    /\ UNCHANGED <<op, args, extractor>>

\* lines 110-120: the converter of this run replaces the extractor's
InitTimingConverter(r) ==
    /\ pc[r].at = "init_converter"
    /\ LET bpm_result == result[r].bpm_result[1]
       IN  /\ extractor' = [extractor EXCEPT !.timing_converter =
                               Some(TimingConverter(bpm_result.bpm_corrected))]
           /\ result' = [result EXCEPT ![r].groove =
                            Some([bpm |-> bpm_result.bpm_corrected,
                                  style |-> bpm_result.style_suggested,
                                  instruments |-> <<>>, swing |-> None])]
    /\ pc' = [pc EXCEPT ![r] = At("process", 1)]
    /\ UNCHANGED <<op, args>>

AfterInstrument(inst) ==
    IF inst < Len(Instruments) THEN At("process", inst + 1) ELSE At("swing", inst)

\* _process_kick, _process_snare, _process_hihat up to line 186 of
\* _add_instrument_data: the onsets of the detector, retagged for the
\* hi-hat, become ticks with the extractor's converter of the moment
ProcessInstrument(r) ==
    /\ pc[r].at = "process"
    /\ LET name == Instruments[pc[r].inst]
           onsets ==
               IF name = "hihat"
               THEN _process_hihat_onsets(extractor.config, HiHatThresholds,
                                          args[r].audio)
               ELSE DetectOnsets(args[r].audio, name)
       IN  IF Len(onsets) = 0
           THEN /\ pc' = [pc EXCEPT ![r] = AfterInstrument(pc[r].inst)]
                /\ result' = [result EXCEPT ![r].onsets = onsets]
           ELSE /\ pc' = [pc EXCEPT ![r] = At("add", pc[r].inst)]
                /\ result' = [result EXCEPT
                                 ![r].onsets = onsets,
                                 ![r].tick_data_list =
                                     onsets_to_tick_data(
                                         extractor.timing_converter[1], onsets)]
    /\ UNCHANGED <<op, args, extractor>>

\* lines 189-223 of _add_instrument_data: the bars, again with the
\* extractor's converter of the moment, the grids and the statistics
AddInstrumentData(r) ==
    /\ pc[r].at = "add"
    /\ LET name == Instruments[pc[r].inst]
           onsets == result[r].onsets
           converter == extractor.timing_converter[1]
           bar_data_list ==
               onsets_to_bar_data(converter, onsets, extractor.config.num_bars)
           humanization ==
               get_humanization_stats(converter, result[r].tick_data_list,
                                      extractor.config.tolerance_ms)
           inst_data == InstrumentData(name, onsets, bar_data_list, humanization)
       IN  result' = [result EXCEPT ![r].groove[1].instruments =
                         (name :> inst_data) @@ @]
    /\ pc' = [pc EXCEPT ![r] = AfterInstrument(pc[r].inst)]
    /\ UNCHANGED <<op, args, extractor>>

\* lines 127-138: the swing of the hi-hat onsets, and the groove is returned
CalculateSwing(r) ==
    /\ pc[r].at = "swing"
    /\ LET instruments == result[r].groove[1].instruments
       IN  IF "hihat" \in DOMAIN instruments
           THEN result' = [result EXCEPT ![r].groove[1].swing =
                              Some(calculate_from_onsets(SwingConfig,
                                       instruments["hihat"].onsets))]
           ELSE UNCHANGED result
    /\ pc' = [pc EXCEPT ![r] = At("done", pc[r].inst)]
    /\ UNCHANGED <<op, args, extractor>>

NextExtract ==
    \E r \in Runs :
        \/ LoadAudio(r)
        \/ AnalyzeBpm(r)
        \/ InitTimingConverter(r)
        \/ ProcessInstrument(r)
        \/ AddInstrumentData(r)
        \/ CalculateSwing(r)

SpecExtract == InitExtract /\ [][NextExtract]_vars

(***************************************************************************)
(* generators/humanizer.py: the velocity of a humanized note               *)
(***************************************************************************)
\* profiles/drummer_profiles.py: the velocity settings of the instruments of
\* each drummer
InstrumentVelocity(velocity_base, velocity_variance) ==
    [velocity_base |-> velocity_base, velocity_variance |-> velocity_variance]

DRUMMER_PROFILES ==
    [drummer \in {"carlton-barrett", "sly-dunbar", "lloyd-knibb", "santa-davis",
                  "horsemouth-wallace"} |->
        CASE drummer = "carlton-barrett" ->
                 [kick |-> InstrumentVelocity(100, 5),
                  snare |-> InstrumentVelocity(100, 8),
                  hihat |-> InstrumentVelocity(80, 12)]
          [] drummer = "sly-dunbar" ->
                 [kick |-> InstrumentVelocity(105, 3),
                  snare |-> InstrumentVelocity(100, 5),
                  hihat |-> InstrumentVelocity(75, 8)]
          [] drummer = "lloyd-knibb" ->
                 [kick |-> InstrumentVelocity(95, 8),
                  snare |-> InstrumentVelocity(95, 10),
                  hihat |-> InstrumentVelocity(85, 15)]
          [] drummer = "santa-davis" ->
                 [kick |-> InstrumentVelocity(98, 6),
                  snare |-> InstrumentVelocity(98, 7),
                  hihat |-> InstrumentVelocity(78, 10)]
          [] drummer = "horsemouth-wallace" ->
                 [kick |-> InstrumentVelocity(102, 8),
                  snare |-> InstrumentVelocity(100, 10),
                  hihat |-> InstrumentVelocity(82, 14)]]

\* an instrument name is the sequence of its parts: "hihat_open" is
\* <<"hihat", "_open">>
SelectParts(name, drop) ==
    LET keep[i \in 0..Len(name)] ==
            IF i = 0 THEN <<>>
            ELSE IF name[i] \in drop THEN keep[i - 1]
            ELSE Append(keep[i - 1], name[i])
    IN  keep[Len(name)]

\* lines 113-116: the instrument whose settings apply
_base_instrument(instrument) ==
    LET stripped == SelectParts(instrument, {"_open", "_closed", "_pedal"})
    IN  IF stripped \in {<<"kick">>, <<"snare">>, <<"hihat">>}
        THEN stripped[1]
        ELSE IF \E i \in 1..Len(instrument) : instrument[i] = "hihat"
        THEN "hihat" ELSE "snare"

apply_velocity_variation_without_floor(profile, base_velocity, instrument, is_accent, intensity, variation) ==
    LET inst_config == profile[_base_instrument(instrument)]
        base == IF base_velocity = 0 THEN inst_config.velocity_base
                ELSE base_velocity
        scaled == RatTrunc(RatMul(FromInt(base), intensity))
        accented == IF is_accent THEN Min(127, scaled + 15) ELSE scaled
        velocity == accented + variation
    IN  Min(127, velocity)

\* apply_velocity_variation; variation is what random.randint(-variance,
\* variance) returned
apply_velocity_variation(profile, base_velocity, instrument, is_accent, intensity, variation) ==
    LET inst_config == profile[_base_instrument(instrument)]
        base == IF base_velocity = 0 THEN inst_config.velocity_base
                ELSE base_velocity
        scaled == RatTrunc(RatMul(FromInt(base), intensity))
        accented == IF is_accent THEN Min(127, scaled + 15) ELSE scaled
        velocity == accented + variation
    IN  Max(1, Min(127, velocity))

(***************************************************************************)
(* Calls into the humanizer                                                *)
(***************************************************************************)
InitHumanizer ==
    /\ pc = "call"
    /\ result = <<>>
    /\ extractor = GrooveExtractor
    /\ op = "apply_velocity_variation"
    /\ \E drummer \in DOMAIN DRUMMER_PROFILES,
          base_velocity \in {0, 1, 64, 100, 120, 127},
          instrument \in {<<"kick">>, <<"snare">>, <<"hihat">>,
                          <<"hihat", "_open">>, <<"hihat", "_closed">>,
                          <<"hihat", "_pedal">>, <<"hihat", "_half">>,
                          <<"crash">>},
          is_accent \in BOOLEAN,
          intensity \in {FromInt(0), Rat(1, 2), Rat(8, 10), FromInt(1)} :
          args = [profile |-> DRUMMER_PROFILES[drummer],
                  base_velocity |-> base_velocity, instrument |-> instrument,
                  is_accent |-> is_accent, intensity |-> intensity]

\* one call: the random draw is any value of randint's range
ApplyVelocityVariation ==
    /\ pc = "call" /\ op = "apply_velocity_variation"
    /\ LET variance ==
               args.profile[_base_instrument(args.instrument)].velocity_variance
       IN  \E variation \in (-variance)..variance :
               Return([velocity |->
                          apply_velocity_variation(args.profile,
                              args.base_velocity, args.instrument,
                              args.is_accent, args.intensity, variation),
                       variation |-> variation])

NextHumanizer ==
    \/ ApplyVelocityVariation

SpecHumanizer == InitHumanizer /\ [][NextHumanizer]_vars

(***************************************************************************)
(* Properties of the style / BPM resolver, checked under Spec              *)
(***************************************************************************)

\* C1: with bpm_detected = 152, no hint, and the kicks and the snares on
\* beat position 2 of each of the first 4 bars of the 152-BPM grid,
\* analyze_with_pattern returns ONE_DROP, bpm_corrected 76.0, "halved".
C1_OneDropAt152 ==
    LET on_beat_3 == [i \in 1..4 |-> Rat((4 * (i - 1) + 2) * 60, 152)]
    IN  (/\ pc = "done" /\ op = "analyze_with_pattern"
         /\ args.bpm_detected = FromInt(152)
         /\ args.style_hint = NoHint
         /\ args.kick_times = on_beat_3
         /\ args.snare_times = on_beat_3)
        => /\ result.style_suggested = ONE_DROP
           /\ result.bpm_corrected = FromInt(76)
           /\ result.correction_type = "halved"

C1_Witness ==
    /\ pc = "done" /\ op = "analyze_with_pattern"
    /\ args.bpm_detected = FromInt(152)
    /\ args.style_hint = NoHint
    /\ args.kick_times = [i \in 1..4 |-> Rat((4 * (i - 1) + 2) * 60, 152)]
    /\ args.snare_times = args.kick_times
    /\ result.correction_type = "halved"

\* C2: a one-drop performance at a true tempo T in [65, 90] (one kick per
\* bar, on beat 3 of the bar at tempo T, at least one snare; here at least
\* two bars of it) tracked at double speed, bpm_detected = 2T > 130, resolves
\* to ONE_DROP with bpm_corrected = T and "halved".
C2_DoubleSpeedOneDrop ==
    (/\ pc = "done" /\ op = "analyze_with_pattern"
     /\ args.style_hint = NoHint
     /\ RatLT(FromInt(130), args.bpm_detected)
     /\ LET T == RatDiv(args.bpm_detected, FromInt(2))
        IN  /\ RatLE(FromInt(65), T) /\ RatLE(T, FromInt(90))
            /\ Len(args.kick_times) >= 2
            /\ \A i \in 1..Len(args.kick_times) :
                  args.kick_times[i] =
                      RatDiv(FromInt((4 * (i - 1) + 2) * 60), T)
     /\ Len(args.snare_times) >= 1)
    => /\ result.style_suggested = ONE_DROP
       /\ result.bpm_corrected = RatDiv(args.bpm_detected, FromInt(2))
       /\ result.correction_type = "halved"

\* C3: refine_bpm_with_pattern with bpm_detected > 130: a SKA pattern keeps
\* the BPM with "none"; a ONE_DROP, STEPPERS or ROCKERS pattern halves it
\* with "halved"; the style returned is the pattern style.
C3_RefineAbove130 ==
    (/\ pc = "done" /\ op = "refine_bpm_with_pattern"
     /\ RatLT(FromInt(130), args.bpm_detected))
    => /\ args.pattern_style = SKA =>
             /\ result.bpm_corrected = args.bpm_detected
             /\ result.correction_type = "none"
             /\ result.style_suggested = SKA
       /\ args.pattern_style \in {ONE_DROP, STEPPERS, ROCKERS} =>
             /\ RatMul(result.bpm_corrected, FromInt(2)) = args.bpm_detected
             /\ result.correction_type = "halved"
             /\ result.style_suggested = args.pattern_style
       /\ (args.bpm_detected = FromInt(152) /\ args.pattern_style = ONE_DROP)
             => result.bpm_corrected = FromInt(76)

C3_Witness ==
    /\ pc = "done" /\ op = "refine_bpm_with_pattern"
    /\ args.bpm_detected = FromInt(152)
    /\ args.pattern_style = ROCKERS
    /\ result.bpm_corrected = FromInt(76)
    /\ result.correction_type = "halved"

\* C4: detect_style_from_pattern counts only the kicks before beat 16; with
\* fewer than 2 of them it returns UNKNOWN; otherwise kicks on all four beat
\* positions give STEPPERS, else more than 0.6 of them on position 2 and
\* less than 0.2 on position 0 give ONE_DROP, else more than 0.7 on
\* positions 0 or 2 give SKA above 110 BPM and ROCKERS up to it, else UNKNOWN.
C4_DecisionOrder ==
    (pc = "done" /\ op = "detect_style_from_pattern")
    => LET kicks == args.kick_times
           in_range == {i \in 1..Len(kicks) :
                           Num(kicks[i]) * Num(args.bpm)
                               < 16 * 60 * Den(kicks[i]) * Den(args.bpm)}
           on(p) == Cardinality({i \in in_range :
                                    BeatPosition(kicks[i], args.bpm) = p})
           total == Cardinality(in_range)
       IN  result =
              IF total < 2 THEN UNKNOWN
              ELSE IF \A p \in 0..3 : on(p) > 0 THEN STEPPERS
              ELSE IF 10 * on(2) > 6 * total /\ 10 * on(0) < 2 * total
              THEN ONE_DROP
              ELSE IF 10 * (on(0) + on(2)) > 7 * total
              THEN IF Num(args.bpm) > 110 * Den(args.bpm) THEN SKA ELSE ROCKERS
              ELSE UNKNOWN

\* a one-drop decision taken with kicks beyond beat 16 left out
C4_Witness ==
    /\ pc = "done" /\ op = "detect_style_from_pattern"
    /\ result = ONE_DROP
    /\ \E i \in 1..Len(args.kick_times) :
          Num(args.kick_times[i]) * Num(args.bpm)
              >= 16 * 60 * Den(args.kick_times[i]) * Den(args.bpm)

\* C5: with a hint other than UNKNOWN, analyze_with_pattern returns the hint
\* with confidence 0.9 whatever the onsets are; a hint in {one_drop, rockers,
\* steppers, roots_reggae, dub} with bpm_detected > 130 halves the BPM; a ska
\* hint never corrects it.
C5_HintPriority ==
    (/\ pc = "done" /\ op = "analyze_with_pattern"
     /\ args.style_hint \notin {NoHint, UNKNOWN})
    => /\ result.style_suggested = args.style_hint
       /\ result.confidence = Rat(9, 10)
       /\ (/\ args.style_hint \in {ONE_DROP, ROCKERS, STEPPERS, ROOTS_REGGAE, DUB}
           /\ RatLT(FromInt(130), args.bpm_detected))
          => /\ result.correction_type = "halved"
             /\ RatMul(result.bpm_corrected, FromInt(2)) = args.bpm_detected
       /\ args.style_hint = SKA
          => /\ result.correction_type = "none"
             /\ result.bpm_corrected = args.bpm_detected

\* C6: suggest_style_from_bpm returns, among the styles whose range holds
\* bpm, one of highest confidence clamp(1 - |bpm - typical| / ((max - min)/2),
\* 0.5, 1.0) with that confidence, and (UNKNOWN, 0) when no range holds bpm;
\* the confidence is 0 or within [0.5, 1.0]; 76 gives ONE_DROP with more
\* than 0.5, 500 gives (UNKNOWN, 0).
C6_BestStyleInRange ==
    (pc = "done" /\ op = "suggest_style_from_bpm")
    => LET bpm == args.bpm
           holding == {i \in 1..Len(STYLE_BPM_RANGES) :
                          /\ RatLE(STYLE_BPM_RANGES[i].min_bpm, bpm)
                          /\ RatLE(bpm, STYLE_BPM_RANGES[i].max_bpm)}
           raw(i) ==
               LET r == STYLE_BPM_RANGES[i]
               IN  RatSub(FromInt(1),
                          RatDiv(RatAbs(RatSub(bpm, r.typical_bpm)),
                                 RatDiv(RatSub(r.max_bpm, r.min_bpm), FromInt(2))))
           conf(i) == IF RatLT(raw(i), Rat(1, 2)) THEN Rat(1, 2)
                      ELSE IF RatLT(FromInt(1), raw(i)) THEN FromInt(1)
                      ELSE raw(i)
       IN  /\ holding = {} => result = <<UNKNOWN, FromInt(0)>>
           /\ holding # {} =>
                 \E i \in holding :
                    /\ result = <<STYLE_BPM_RANGES[i].style, conf(i)>>
                    /\ \A j \in holding : RatLE(conf(j), conf(i))
           /\ \/ result[2] = FromInt(0)
              \/ RatLE(Rat(1, 2), result[2]) /\ RatLE(result[2], FromInt(1))
           /\ bpm = FromInt(76) =>
                 result[1] = ONE_DROP /\ RatLT(Rat(1, 2), result[2])
           /\ bpm = FromInt(500) => result = <<UNKNOWN, FromInt(0)>>

\* a tempo held by several ranges, one of them away from its typical value
C6_Witness ==
    /\ pc = "done" /\ op = "suggest_style_from_bpm"
    /\ args.bpm = FromInt(76)
    /\ result = <<ONE_DROP, FromInt(1)>>

\* C7: suggest_bpm_correction returns (bpm / 2, "halved") for a style in
\* {one_drop, rockers, steppers, roots_reggae, dub} with bpm > 130,
\* (bpm * 2, "doubled") for ska with bpm < 60, and (bpm, "none") otherwise.
C7_BpmOnlyCorrection ==
    (pc = "done" /\ op = "suggest_bpm_correction")
    => LET bpm == args.bpm
           style == args.detected_style
           slow == style \in {ONE_DROP, ROCKERS, STEPPERS, ROOTS_REGGAE, DUB}
                   /\ Num(bpm) > 130 * Den(bpm)
           fast == style = SKA /\ Num(bpm) < 60 * Den(bpm)
       IN  /\ slow => /\ RatMul(result[1], FromInt(2)) = bpm
                      /\ result[2] = "halved"
           /\ fast => /\ result[1] = RatMul(bpm, FromInt(2))
                      /\ result[2] = "doubled"
           /\ (~slow /\ ~fast) => result = <<bpm, "none">>

C7_Witness ==
    /\ pc = "done" /\ op = "suggest_bpm_correction"
    /\ args.detected_style = ROOTS_REGGAE
    /\ args.bpm = FromInt(152)
    /\ result = <<FromInt(76), "halved">>

\* C8: on every resolution path the alternatives hold exactly the styles
\* whose BPM range contains the final bpm_corrected, each once.
C8_AlternativesOfCorrectedBpm ==
    (/\ pc = "done"
     /\ op \in {"analyze", "_apply_style_hint_correction",
                "refine_bpm_with_pattern", "analyze_with_pattern"})
    => LET alts == result.alternatives
           expected == {STYLE_BPM_RANGES[i].style :
                           i \in {j \in 1..Len(STYLE_BPM_RANGES) :
                                     /\ RatLE(STYLE_BPM_RANGES[j].min_bpm,
                                              result.bpm_corrected)
                                     /\ RatLE(result.bpm_corrected,
                                              STYLE_BPM_RANGES[j].max_bpm)}}
       IN  /\ {alts[k][1] : k \in 1..Len(alts)} = expected
           /\ Len(alts) = Cardinality(expected)

\* a hint path that halved the BPM, with alternatives around the halved value
C8_Witness ==
    /\ pc = "done" /\ op = "analyze_with_pattern"
    /\ args.style_hint = DUB
    /\ result.correction_type = "halved"
    /\ Len(result.alternatives) > 1

(***************************************************************************)
(* Properties of the grid model, checked under SpecGrid                    *)
(***************************************************************************)

\* C9: converting a time t >= 0 to a tick and back moves it by less than
\* one tick of time: |tick_to_time(time_to_tick(t, bpm), bpm) - t|
\* < 60 / (bpm * PPQ).
C9_RoundTrip ==
    (pc = "done" /\ op = "tick_to_time")
    => RatLT(RatAbs(RatSub(result, args.time_seconds)),
             RatDiv(FromInt(60), RatMul(args.bpm, FromInt(PPQ))))

\* a time off the tick grid, so the round trip does move it
C9_Witness ==
    /\ pc = "done" /\ op = "tick_to_time"
    /\ result # args.time_seconds

\* C10 as stated: time_to_tick returns the integer tick nearest to the exact
\* position t * bpm / 60 * PPQ, a fraction of one half or more going up.
C10_NearestTick ==
    (pc = "done" /\ op = "time_to_tick")
    => LET exact == RatMul(RatDiv(RatMul(args.time_seconds, args.bpm),
                                  FromInt(60)), FromInt(PPQ))
           shifted == RatAdd(exact, Rat(1, 2))
       IN  RatLE(FromInt(result), shifted) /\ RatLT(shifted, FromInt(result + 1))

\* C10 amended: time_to_tick returns the integer part of the exact position
\* t * bpm / 60 * PPQ, the last tick at or before it, whatever the fraction.
C10_TickAtOrBefore ==
    (pc = "done" /\ op = "time_to_tick")
    => LET t == args.time_seconds
           position == Num(t) * Num(args.bpm) * PPQ
           unit == 60 * Den(t) * Den(args.bpm)
       IN  unit * result <= position /\ position < unit * (result + 1)

\* a time whose exact position lies half a tick or more past the tick returned
C10_Witness ==
    /\ pc = "done" /\ op = "time_to_tick"
    /\ LET exact == RatMul(RatDiv(RatMul(args.time_seconds, args.bpm),
                                  FromInt(60)), FromInt(PPQ))
       IN  RatLE(RatAdd(FromInt(result), Rat(1, 2)), exact)

(***************************************************************************)
(* Properties of the timing converter, checked under SpecQuantize          *)
(***************************************************************************)

\* C11: quantize_tick is idempotent: for every tick t >= 0, quantizing the
\* quantized tick of t returns that same tick with deviation 0.
C11_QuantizeIdempotent ==
    (pc = "done" /\ op = "quantize_tick_again") =>
        /\ result.second.quantized_tick = result.first.quantized_tick
        /\ result.second.deviation = 0

\* a tick half-way between two steps has been quantized twice
C11_Witness ==
    /\ pc = "done" /\ op = "quantize_tick_again"
    /\ args.tick = 180
    /\ result.first.deviation = -60
    /\ result.second.quantized_tick = 240

\* C12: for every tick >= 0, tick_to_grid_position returns
\* bar = tick // 1920 + 1 >= 1 and step = ((tick mod 1920) // 120) + 1,
\* which lies within 1..16.
C12_GridPosition ==
    (pc = "done" /\ op = "tick_to_grid_position") =>
        /\ result.bar = args.tick \div 1920 + 1
        /\ result.bar >= 1
        /\ result.step = ((args.tick % 1920) \div 120) + 1
        /\ result.step \in 1..16

\* the last tick of the second bar has been placed
C12_Witness ==
    /\ pc = "done" /\ op = "tick_to_grid_position"
    /\ args.tick = 3839
    /\ result = GridPosition(2, 16)

\* C13: every TickData of onset_to_tick_data has quantized_tick the multiple
\* of 120 nearest to tick, deviation_ticks = tick - quantized_tick (so at
\* most 60 in absolute value), and deviation_ms = tick_to_time(|deviation
\* in ticks|) * 1000 with the sign of deviation_ticks: negative when early,
\* positive when late, zero on the grid.
C13_TickDataDeviation ==
    (pc = "done" /\ op = "onset_to_tick_data") =>
        LET td == result
            magnitude == RatMul(tick_to_time(Abs(td.deviation_ticks),
                                             args.self.bpm, PPQ),
                                FromInt(1000))
        IN  /\ td.tick = time_to_tick(args.onset.time, args.self.bpm, PPQ)
            /\ td.quantized_tick % 120 = 0
            /\ \A k \in 0..(td.tick \div 120 + 1) :
                  Abs(td.tick - td.quantized_tick) <= Abs(td.tick - 120 * k)
            /\ td.deviation_ticks = td.tick - td.quantized_tick
            /\ Abs(td.deviation_ticks) <= 60
            /\ RatAbs(td.deviation_ms) = magnitude
            /\ td.deviation_ticks < 0 <=> RatLT(td.deviation_ms, FromInt(0))
            /\ td.deviation_ticks > 0 <=> RatLT(FromInt(0), td.deviation_ms)
            /\ td.deviation_ticks = 0 <=> td.deviation_ms = FromInt(0)

\* an early onset: its tick lies before the step it is quantized to
C13_Witness ==
    /\ pc = "done" /\ op = "onset_to_tick_data"
    /\ result.deviation_ticks < 0
    /\ RatLT(result.deviation_ms, FromInt(0))
    /\ result.grid_position.step > 1

(***************************************************************************)
(* Properties of the bar aggregation and the statistics, under SpecBars    *)
(***************************************************************************)

\* C14: onsets_to_bar_data returns one BarData per bar 1..N, where N is
\* num_bars, or the highest bar holding an onset when num_bars is None, and
\* the list is empty for no onsets; each bar has exactly 16 pattern flags
\* and 16 velocities, pattern[s] = 1 if and only if at least one onset
\* quantizes into step s+1 of that bar, and velocities[s] = 0 wherever
\* pattern[s] = 0.
C14_BarData ==
    (pc = "done" /\ op = "onsets_to_bar_data") =>
        LET onsets == args.onsets
            QTick(i) ==
                120 * RatRound(Rat(time_to_tick(onsets[i].time,
                                                args.self.bpm, PPQ), 120))
            QBar(i) == QTick(i) \div 1920 + 1
            QStep(i) == (QTick(i) % 1920) \div 120 + 1
            N == IF Len(onsets) = 0 THEN 0
                 ELSE IF args.num_bars = None
                      THEN CHOOSE b \in {QBar(i) : i \in 1..Len(onsets)} :
                               \A i \in 1..Len(onsets) : QBar(i) <= b
                      ELSE args.num_bars[1]
        IN  /\ Len(result) = N
            /\ \A b \in 1..N :
                  /\ result[b].bar_number = b
                  /\ Len(result[b].pattern) = 16
                  /\ Len(result[b].velocities) = 16
                  /\ \A s \in 1..16 :
                        /\ result[b].pattern[s] \in {0, 1}
                        /\ result[b].pattern[s] = 1 <=>
                              \E i \in 1..Len(onsets) : QBar(i) = b /\ QStep(i) = s
                        /\ result[b].pattern[s] = 0 => result[b].velocities[s] = 0

\* two bars without num_bars: the second bar holds, on its first step, an
\* onset played before the bar line, and a step of the first bar holds two
\* onsets
C14_Witness ==
    /\ pc = "done" /\ op = "onsets_to_bar_data"
    /\ args.num_bars = None
    /\ Len(args.onsets) = 3
    /\ Len(result) = 2
    /\ Len(result[1].ticks) = 2
    /\ result[1].pattern[1] = 1 /\ result[1].pattern[2] = 0
    /\ Len(result[2].ticks) = 1
    /\ result[2].ticks[1].tick < 1920
    /\ result[2].pattern[1] = 1

C15_WitnessEmpty ==
    /\ pc = "done" /\ op = "get_humanization_stats"
    /\ Len(args.tick_data_list) = 0

(***************************************************************************)
(* Properties of the swing calculator, checked under SpecSwing             *)
(***************************************************************************)

\* C16: calculate_from_intervals returns the neutral result (percentage 50,
\* ratio 1.0, not swung, confidence 0) for fewer than min_intervals = 4
\* intervals; otherwise swing_percentage is 100 times the mean of
\* max(a, b) / (a + b) over the consecutive non-overlapping pairs (the pairs
\* for which that quotient exists), and is_swung is true exactly when
\* swing_percentage > 52.0; so eight equal intervals give 50.0 and not
\* swung, and [0.5, 0.25] four times gives about 66.7 and swung.
C16_SwingPercentage ==
    (pc = "done" /\ op = "calculate_from_intervals") =>
        LET iv == args.intervals
            Pairs == {i \in 1..(Len(iv) - 1) :
                         i % 2 = 1 /\ RatLT(FromInt(0), RatAdd(iv[i], iv[i + 1]))}
            Ratio(i) == RatDiv(RatMax(iv[i], iv[i + 1]), RatAdd(iv[i], iv[i + 1]))
            RECURSIVE Total(_)
            Total(S) == IF S = {} THEN FromInt(0)
                        ELSE LET i == CHOOSE j \in S : TRUE
                             IN  RatAdd(Ratio(i), Total(S \ {i}))
            equal8 == Len(iv) = 8 /\ iv[1] # FromInt(0)
                      /\ \A i \in 1..8 : iv[i] = iv[1]
            shuffle8 == iv = [i \in 1..8 |-> IF i % 2 = 1 THEN Rat(1, 2)
                                             ELSE Rat(1, 4)]
        IN  /\ Len(iv) < 4 =>
                  /\ result.swing_percentage = FromInt(50)
                  /\ result.swing_ratio = FromInt(1)
                  /\ result.is_swung = FALSE
                  /\ result.confidence = FromInt(0)
            /\ (Len(iv) >= 4 /\ Pairs # {}) =>
                  /\ RatMul(result.swing_percentage, FromInt(Cardinality(Pairs)))
                        = RatMul(FromInt(100), Total(Pairs))
                  /\ result.is_swung <=> RatLT(FromInt(52), result.swing_percentage)
            /\ equal8 =>
                  result.swing_percentage = FromInt(50) /\ ~result.is_swung
            /\ shuffle8 =>
                  /\ RatLE(RatAbs(RatSub(result.swing_percentage, Rat(667, 10))),
                           Rat(1, 2))
                  /\ result.is_swung

\* [0.5, 0.25] repeated four times has been measured as swung
C16_Witness ==
    /\ pc = "done" /\ op = "calculate_from_intervals"
    /\ args.intervals = [i \in 1..8 |-> IF i % 2 = 1 THEN Rat(1, 2) ELSE Rat(1, 4)]
    /\ result.swing_percentage = Rat(200, 3)
    /\ result.swing_ratio = FromInt(2)
    /\ result.is_swung

\* C17: for every list of non-negative intervals, with one or both intervals
\* of a pair equal to 0 included, calculate_from_intervals guards every
\* division against a zero denominator and returns a finite
\* swing_ratio >= 1.0 (1.0 if the mean pair ratio <= 0.5, else
\* mean / (1 - mean)) and a confidence within [0, 1].
C17_GuardedDivisions ==
    (pc = "done" /\ op = "calculate_from_intervals") =>
        /\ IsFinite(result.swing_ratio)
        /\ RatLE(FromInt(1), result.swing_ratio)
        /\ RatLE(FromInt(0), result.confidence)
        /\ RatLE(result.confidence, FromInt(1))
        /\ (Len(args.intervals) >= 4 /\ PairRatios(args.intervals, 1, 2) # <<>>) =>
              LET mean == Mean(PairRatios(args.intervals, 1, 2))
              IN  /\ RatLE(mean, Rat(1, 2)) => result.swing_ratio = FromInt(1)
                  /\ RatLT(Rat(1, 2), mean) =>
                        /\ mean # FromInt(1)
                        /\ result.swing_ratio = RatDiv(mean, RatSub(FromInt(1), mean))

(***************************************************************************)
(* Properties of the hi-hat classifier, checked under SpecHiHat            *)
(***************************************************************************)

\* C18: a segment of fewer than 100 samples yields (UNKNOWN, 0); otherwise
\* decay_time < 100 ms gives CLOSED and decay_time > 200 ms gives OPEN, each
\* with a confidence in [0.8, 1.0]; between the two the weighted score
\* (0.40 decay, 0.25 amp_100ms, 0.20 temporal centroid, 0.15 spectral
\* flatness) gives OPEN when it is above 0.5 and CLOSED otherwise, with
\* confidence min(0.7, 0.5 + |score - 0.5|), which lies in [0.5, 0.7].
C18_HiHatDecision ==
    (pc = "done" /\ op = "classify") =>
        LET f == args.features
            Between(lo, x, hi) == RatLE(lo, x) /\ RatLE(x, hi)
            Capped(x) == RatMin(FromInt(1), x)
            score ==
                RatAdd(RatAdd(RatMul(Rat(40, 100),
                                     RatDiv(RatSub(f.decay_time, Rat(1, 10)),
                                            Rat(1, 10))),
                              RatMul(Rat(25, 100),
                                     Capped(RatDiv(f.amp_100ms, Rat(1, 10))))),
                       RatAdd(RatMul(Rat(20, 100),
                                     Capped(RatDiv(f.temporal_centroid,
                                                   Rat(15, 100)))),
                              RatMul(Rat(15, 100), f.spectral_flatness)))
        IN  IF args.segment_len < 100
            THEN result = HiHatClassification("unknown", FromInt(0))
            ELSE IF RatLT(f.decay_time, Rat(100, 1000))
            THEN /\ result.hit_type = "closed"
                 /\ Between(Rat(8, 10), result.confidence, FromInt(1))
            ELSE IF RatLT(Rat(200, 1000), f.decay_time)
            THEN /\ result.hit_type = "open"
                 /\ Between(Rat(8, 10), result.confidence, FromInt(1))
            ELSE /\ result.hit_type =
                        IF RatLT(Rat(1, 2), score) THEN "open" ELSE "closed"
                 /\ result.confidence =
                        RatMin(Rat(7, 10),
                               RatAdd(Rat(1, 2), RatAbs(RatSub(score, Rat(1, 2)))))
                 /\ Between(Rat(1, 2), result.confidence, Rat(7, 10))

\* a decay of exactly 200 ms with a score of exactly 0.5: CLOSED, at the
\* lowest confidence
C18_Witness ==
    /\ pc = "done" /\ op = "classify"
    /\ args.segment_len >= 100
    /\ args.features.decay_time = Rat(200, 1000)
    /\ result = HiHatClassification("closed", Rat(1, 2))

\* C19: every JamaicanStyle variant other than UNKNOWN has an entry in the
\* BPM-range table, with min_bpm <= typical_bpm <= max_bpm, and an entry in
\* the swing-range table, with min% <= max%, so that compare_to_style finds
\* a range for it.
C19_EveryStyleHasRanges ==
    (pc = "done" /\ op = "compare_to_style" /\ args.style # UNKNOWN) =>
        /\ \E i \in 1..Len(STYLE_BPM_RANGES) :
              /\ STYLE_BPM_RANGES[i].style = args.style
              /\ RatLE(STYLE_BPM_RANGES[i].min_bpm, STYLE_BPM_RANGES[i].typical_bpm)
              /\ RatLE(STYLE_BPM_RANGES[i].typical_bpm, STYLE_BPM_RANGES[i].max_bpm)
        /\ args.style \in DOMAIN SWING_RANGES_BY_STYLE
        /\ RatLE(SWING_RANGES_BY_STYLE[args.style][1],
                 SWING_RANGES_BY_STYLE[args.style][2])
        /\ result # "sin rango de swing definido"

(***************************************************************************)
(* Properties of extract, checked under SpecExtract                        *)
(***************************************************************************)

\* C20: analysis runs are isolated: when two extract runs that share one
\* GrooveExtractor interleave, the grids and the humanization statistics of
\* every instrument of a run are computed with that run's own corrected
\* BPM.
C20_RunsIsolated ==
    \A r \in Runs :
        result[r].groove # None =>
            LET groove == result[r].groove[1]
                own == TimingConverter(groove.bpm)
            IN  /\ groove.bpm = result[r].bpm_result[1].bpm_corrected
                /\ \A name \in DOMAIN groove.instruments :
                      LET onsets == groove.instruments[name].onsets
                      IN  groove.instruments[name] =
                              InstrumentData(name, onsets,
                                  onsets_to_bar_data(own, onsets,
                                                     ExtractorConfig.num_bars),
                                  get_humanization_stats(own,
                                      onsets_to_tick_data(own, onsets),
                                      ExtractorConfig.tolerance_ms))

\* C20, its last part: no configuration field of a component (the sr of the
\* detector, the classifier and the BPM analyzer, or the timing converter)
\* is mutated after construction.
C20_ConfigurationImmutable == extractor = GrooveExtractor

\* two runs have returned grooves of different tempi, each with its three
\* instruments
C20_BothRunsDone ==
    /\ \A r \in Runs : pc[r].at = "done"
    /\ result[1].groove[1].bpm # result[2].groove[1].bpm
    /\ \A r \in Runs : DOMAIN result[r].groove[1].instruments
                            = {"kick", "snare", "hihat"}

(***************************************************************************)
(* Properties of the onsets of an extract run, checked under SpecExtract   *)
(***************************************************************************)

\* C21: onset events are immutable once the detector has produced them:
\* the time, the velocity and the instrument tag of every onset in the
\* onset lists of a groove equal what the onset detector returned for it.
C21_OnsetsAsDetected ==
    \A r \in Runs :
        result[r].groove # None =>
            \A name \in DOMAIN result[r].groove[1].instruments :
                result[r].groove[1].instruments[name].onsets
                    = DetectOnsets(args[r].audio, name)

(***************************************************************************)
(* Properties of the humanizer, checked under SpecHumanizer                *)
(***************************************************************************)

\* C22: apply_velocity_variation returns a MIDI velocity within [1, 127]
\* for every base velocity, instrument name, accent flag, intensity and
\* random variation draw allowed by the drummer profile.
C22_VelocityInMidiRange ==
    (pc = "done" /\ op = "apply_velocity_variation")
        => result.velocity \in 1..127

\* a silent block (intensity 0) and a negative draw: the floor of 1 applies
C22_Witness ==
    /\ pc = "done" /\ op = "apply_velocity_variation"
    /\ args.intensity = FromInt(0)
    /\ result.variation < 0
    /\ result.velocity = 1

\* an accent on a full-velocity note and a positive draw: the ceiling of
\* 127 applies
C22_WitnessCeiling ==
    /\ pc = "done" /\ op = "apply_velocity_variation"
    /\ args.base_velocity = 127 /\ args.is_accent
    /\ args.intensity = FromInt(1)
    /\ result.variation > 0
    /\ result.velocity = 127

(***************************************************************************)
(* Properties of the bars, checked under SpecBars                          *)
(***************************************************************************)

\* C23: whenever several onsets quantize into the same step of the same
\* bar, the velocity onsets_to_bar_data reports for that step is the
\* velocity of the last of those onsets in list order, and the timing
\* deviation the pipeline reports for the step comes from that same onset.
C23_LastOnsetOfStep ==
    (pc = "done" /\ op = "onsets_to_bar_data") =>
        LET onsets == args.onsets
            td(i) == onset_to_tick_data(args.self, onsets[i])
        IN  \A b \in 1..Len(result), s \in 1..STEPS_PER_BAR :
                LET at == {i \in 1..Len(onsets) :
                              td(i).grid_position = GridPosition(b, s)}
                IN  at # {} =>
                        LET last == CHOOSE i \in at : \A j \in at : j <= i
                        IN  /\ result[b].velocities[s] = onsets[last].velocity
                            /\ GridMapping(result[b]).timing_deviations[s]
                                   = td(last).deviation_ms

\* C30: onset_to_tick_data takes the grid position from the quantized tick,
\* not the raw tick: every TickData satisfies
\* (bar - 1) * 16 + (step - 1) = quantized_tick / 120, so an onset whose raw
\* tick lies fewer than 60 ticks before a bar line is placed at step 1 of
\* the following bar, and that bar is counted by onsets_to_bar_data.
C30_GridOfQuantizedTick ==
    (pc = "done" /\ op = "onsets_to_bar_data") =>
        LET tick_data_list == onsets_to_tick_data(args.self, args.onsets)
            ticks_per_bar == args.self.ticks_per_bar
        IN  /\ \A i \in 1..Len(tick_data_list) :
                  LET td == tick_data_list[i]
                      next_bar == td.tick \div ticks_per_bar + 2
                  IN  /\ td.quantized_tick % 120 = 0
                      /\ (td.grid_position.bar - 1) * 16
                             + (td.grid_position.step - 1)
                         = td.quantized_tick \div 120
                      /\ ticks_per_bar - (td.tick % ticks_per_bar) < 60 =>
                            /\ td.grid_position = GridPosition(next_bar, 1)
                            /\ args.num_bars = None => Len(result) >= next_bar
                            /\ Len(result) >= next_bar =>
                                  \E k \in 1..Len(result[next_bar].ticks) :
                                      result[next_bar].ticks[k] = td
            /\ \A b \in 1..Len(result) :
                  \A k \in 1..Len(result[b].ticks) :
                      \E i \in 1..Len(tick_data_list) :
                          result[b].ticks[k] = tick_data_list[i]

\* the only onset is played 30 ticks before the second bar line of a
\* 75-BPM grid: it is step 1 of bar 2, and two bars are returned
C30_Witness ==
    /\ pc = "done" /\ op = "onsets_to_bar_data"
    /\ args.num_bars = None
    /\ Len(args.onsets) = 1
    /\ Len(result) = 2
    /\ Len(result[2].ticks) = 1
    /\ result[2].ticks[1].tick = 1890
    /\ result[2].ticks[1].quantized_tick = 1920
    /\ result[2].ticks[1].grid_position = GridPosition(2, 1)
    /\ result[2].pattern[1] = 1

(***************************************************************************)
(* Properties of the pattern detection, checked under Spec                 *)
(***************************************************************************)

\* C24: pattern detection buckets onsets within a tolerance of 15% of a
\* beat: a kick counts for beat position p (0-3) only if it lies within 15%
\* of a beat duration of such a beat, and a kick farther than that from
\* every beat is counted in no beat position and not in the kick total (so
\* kicks that are all off the beats give UNKNOWN).
C24_ToleranceBuckets ==
    (pc = "done" /\ op = "detect_style_from_pattern") =>
        LET beat_duration == RatDiv(FromInt(60), args.bpm)
            tolerance == RatMul(beat_duration, Rat(15, 100))
            kicks_in_range ==
                SelectSeq(args.kick_times,
                          LAMBDA t : RatLT(t, RatMul(beat_duration, FromInt(16))))
            kick_beats == _get_beat_positions(kicks_in_range, args.bpm, tolerance)
            nearest(t) == RatRound(RatDiv(t, beat_duration))
            Near(t, p) ==
                /\ nearest(t) % 4 = p
                /\ RatLE(RatAbs(RatSub(t, RatMul(FromInt(nearest(t)),
                                                 beat_duration))),
                         tolerance)
            counted == {i \in 1..Len(kicks_in_range) :
                           \E p \in 0..3 : Near(kicks_in_range[i], p)}
        IN  /\ Len(kick_beats) = Cardinality(counted)
            /\ \A p \in 0..3 :
                  Count(kick_beats, p) =
                      Cardinality({i \in counted : Near(kicks_in_range[i], p)})
            /\ counted = {} => result = UNKNOWN

C25_BpmOnlyWithoutPattern ==
    (/\ pc = "done" /\ op = "analyze_with_pattern"
     /\ args.style_hint = NoHint
     /\ \/ ~RatLT(FromInt(130), args.bpm_detected)
        \/ args.kick_times = <<>>
        \/ args.snare_times = <<>>
        \/ detect_style_from_pattern(args.kick_times, args.snare_times,
                                     args.bpm_detected) = UNKNOWN)
    => LET base == analyze(args.bpm_detected)
       IN  /\ result.style_suggested = base.style_suggested
           /\ result.bpm_corrected = base.bpm_corrected
           /\ result.correction_type = base.correction_type
           /\ result.confidence = base.confidence

\* C26 as stated: the alternatives are ranked by proximity to each style's
\* typical BPM: a style whose typical_bpm is strictly closer to
\* bpm_corrected never appears after a style whose typical_bpm is farther.
C26_RankedByProximity ==
    (/\ pc = "done"
     /\ op \in {"analyze", "analyze_with_pattern",
                "_apply_style_hint_correction", "refine_bpm_with_pattern"}) =>
        LET alts == result.alternatives
            range_of(style) ==
                STYLE_BPM_RANGES[CHOOSE i \in 1..Len(STYLE_BPM_RANGES) :
                                     STYLE_BPM_RANGES[i].style = style]
            distance(k) ==
                RatAbs(RatSub(result.bpm_corrected,
                              range_of(alts[k][1]).typical_bpm))
        IN  \A i, j \in 1..Len(alts) :
                i < j => ~RatLT(distance(j), distance(i))

\* C26, amended: the alternatives are ranked by confidence, the distance to
\* the typical BPM divided by half the width of the style's range,
\* subtracted from 1 and clamped to [0.3, 1.0]: confidences never increase
\* along the list, and styles of equal confidence keep the order of
\* STYLE_BPM_RANGES.
C26_RankedByConfidence ==
    (/\ pc = "done"
     /\ op \in {"analyze", "analyze_with_pattern",
                "_apply_style_hint_correction", "refine_bpm_with_pattern"}) =>
        LET alts == result.alternatives
            index_of(style) ==
                CHOOSE i \in 1..Len(STYLE_BPM_RANGES) :
                    STYLE_BPM_RANGES[i].style = style
        IN  /\ \A k \in 1..Len(alts) :
                  alts[k][2] =
                      RangeConfidence(result.bpm_corrected,
                          STYLE_BPM_RANGES[index_of(alts[k][1])], Rat(3, 10))
            /\ \A i, j \in 1..Len(alts) :
                  i < j =>
                      /\ RatLE(alts[j][2], alts[i][2])
                      /\ alts[i][2] = alts[j][2] =>
                             index_of(alts[i][1]) < index_of(alts[j][1])

\* at 86 BPM one drop (typical 76) comes before steppers (typical 78), both
\* at the floor of 0.3, and roots reggae (typical 78) before both
C26_Witness ==
    /\ pc = "done" /\ op = "analyze"
    /\ result.bpm_corrected = FromInt(86)
    /\ \E i, j, k \in 1..Len(result.alternatives) :
          /\ i < j /\ j < k
          /\ result.alternatives[i] = <<ROOTS_REGGAE, Rat(7, 15)>>
          /\ result.alternatives[j] = <<ONE_DROP, Rat(3, 10)>>
          /\ result.alternatives[k] = <<STEPPERS, Rat(3, 10)>>

\* C27: on every path of analyze and analyze_with_pattern at most one halve
\* or double step is applied and the tag matches the numbers:
\* correction_type is "none" with bpm_corrected = bpm_detected, or "halved"
\* with bpm_corrected = bpm_detected / 2, or "doubled" with bpm_corrected =
\* bpm_detected * 2.
C27_TagMatchesNumbers ==
    (/\ pc = "done"
     /\ op \in {"analyze", "analyze_with_pattern",
                "_apply_style_hint_correction", "refine_bpm_with_pattern"})
    => \/ /\ result.correction_type = "none"
          /\ result.bpm_corrected = result.bpm_detected
       \/ /\ result.correction_type = "halved"
          /\ result.bpm_corrected = RatDiv(result.bpm_detected, FromInt(2))
       \/ /\ result.correction_type = "doubled"
          /\ result.bpm_corrected = RatMul(result.bpm_detected, FromInt(2))

\* the pattern path halved a BPM above 130 once
C27_Witness ==
    /\ pc = "done" /\ op = "analyze_with_pattern"
    /\ args.style_hint = NoHint
    /\ RatLT(FromInt(130), args.bpm_detected)
    /\ result.bpm_detected = args.bpm_detected
    /\ result.correction_type = "halved"
    /\ RatMul(result.bpm_corrected, FromInt(2)) = args.bpm_detected

\* C28: the BPM-only path never corrects: no slow-reggae range reaches above
\* 130 and the ska range does not reach below 60, so the style guessed from
\* bpm_detected never triggers a correction and analyze returns "none" with
\* bpm_corrected = bpm_detected for every bpm_detected; the same holds for
\* refine_bpm_with_pattern with an UNKNOWN pattern.
C28_BpmOnlyNeverCorrects ==
    /\ (pc = "done" /\ op = "analyze") =>
          /\ \A i \in 1..Len(STYLE_BPM_RANGES) :
                LET range_info == STYLE_BPM_RANGES[i]
                IN  /\ range_info.style \in reggae_styles =>
                          RatLE(range_info.max_bpm, FromInt(130))
                    /\ range_info.style = SKA =>
                          RatLE(FromInt(60), range_info.min_bpm)
          /\ result.correction_type = "none"
          /\ result.bpm_corrected = args.bpm_detected
    /\ (/\ pc = "done" /\ op = "refine_bpm_with_pattern"
        /\ args.pattern_style = UNKNOWN) =>
          /\ result.correction_type = "none"
          /\ result.bpm_corrected = args.bpm_detected

\* a BPM above 130 is guessed as ska and kept
C28_Witness ==
    /\ pc = "done" /\ op = "analyze"
    /\ RatLT(FromInt(130), args.bpm_detected)
    /\ result.style_suggested = SKA
    /\ result.correction_type = "none"
    /\ result.bpm_corrected = args.bpm_detected

\* a BPM above 130 with an UNKNOWN pattern is kept by the refinement
C28_WitnessRefine ==
    /\ pc = "done" /\ op = "refine_bpm_with_pattern"
    /\ args.pattern_style = UNKNOWN
    /\ RatLT(FromInt(130), args.bpm_detected)
    /\ result.correction_type = "none"

====
